---- MODULE Spec2Model ----
(***************************************************************************)
(* The expand engine of internal/graph/expand.go: the concurrent expander  *)
(* (expandDirect, expandUsersetRewrite, expandSetOperation, dispatch,      *)
(* expandComputedUserset, expandTupleToUserset), the reducers              *)
(* (ExpandAny / ExpandAll / ExpandDifference / ExpandOne) and the local    *)
(* dispatcher they call through.  Every goroutine is a task; a task is     *)
(* identified by its path in the spawn tree.  The Expand RPC of            *)
(* internal/services/acl.go, which hands a request to the dispatcher, is   *)
(* modelled at the end (rpc, SpecRPC).                                     *)
(***************************************************************************)
EXTENDS Integers, Sequences, FiniteSets, TLC

VARIABLES tasks, cancelled, request, cancellable, rpc

vars == <<tasks, cancelled, request, cancellable, rpc>>

-----------------------------------------------------------------------------
(* Bounds of the model *)

\* largest depth budget a root request starts with
MaxDepth == 2

\* width of ExpandRequest.DepthRemaining (uint16)
DepthBits == 16

DepthModulus == 2 ^ DepthBits

-----------------------------------------------------------------------------
(* Values *)

Ellipsis == "..."

ONR(ns, id, rel) == <<ns, id, rel>>

\* a nil *pb.ObjectAndRelation
NilONR == <<>>

NoErr == <<>>

ErrRequestCanceled == <<"RequestCanceled">>

\* errAlwaysFailExpand = errors.New("always fail"): a plain error, not a value
\* of the type graph.ErrAlwaysFail
ErrAlwaysFail == <<"always fail">>

NewExpansionFailureErr(cause) == <<"ExpansionFailure", cause>>

NilTree == [type |-> "nil", expanded |-> NilONR, op |-> "", users |-> <<>>, children |-> <<>>]

LeafNode(expanded, users) ==
    [type |-> "leaf", expanded |-> expanded, op |-> "", users |-> users, children |-> <<>>]

ExpandResult(tree, err) == [Tree |-> tree, Err |-> err]

\* a result slot nothing has been written to yet
NoResult == [Tree |-> NilTree, Err |-> <<"unset">>]

ShallowExpansion == "Shallow"

RecursiveExpansion == "Recursive"

ExpandRequest(start, rev, depth, mode) ==
    [Start |-> start, AtRevision |-> rev, DepthRemaining |-> depth, ExpansionMode |-> mode]

\* DepthRemaining - 1 on a uint16
\* a decrement that takes two from the depth
DecrDepthByTwo(d) == (d + DepthModulus - 2) % DepthModulus

DecrDepth(d) == (d + DepthModulus - 1) % DepthModulus

-----------------------------------------------------------------------------
(* The schema the namespace manager serves (a fixture in the style of the   *)
(* folder / document schema of the expand tests)                            *)

NilRewrite == [op |-> "nil", child |-> <<>>]

This == [t |-> "this", Object |-> "", Relation |-> "", Tupleset |-> "", rw |-> NilRewrite]

ComputedUserset(object, rel) ==
    [t |-> "cu", Object |-> object, Relation |-> rel, Tupleset |-> "", rw |-> NilRewrite]

TupleToUserset(tupleset, object, rel) ==
    [t |-> "ttu", Object |-> object, Relation |-> rel, Tupleset |-> tupleset, rw |-> NilRewrite]

Rewrite(usr) == [t |-> "rewrite", Object |-> "", Relation |-> "", Tupleset |-> "", rw |-> usr]

Union(children) == [op |-> "Union", child |-> children]

Intersection(children) == [op |-> "Intersection", child |-> children]

Exclusion(children) == [op |-> "Exclusion", child |-> children]

\* folder { owner; parent; editor = _this + owner; viewer = parent->viewer;
\*          auditor = _this & (_this - {}); nobody = (&) + (-); self = self;
\*          odd = <a nested rewrite with no operation set>;
\*          broken = <computed userset of a tupleset, outside a tupleset> }
FolderRelations ==
    [owner   |-> NilRewrite,
     parent  |-> NilRewrite,
     editor  |-> Union(<<This, ComputedUserset("TUPLE_OBJECT", "owner")>>),
     viewer  |-> Union(<<TupleToUserset("parent", "TUPLE_USERSET_OBJECT", "viewer")>>),
     auditor |-> Intersection(<<This, Rewrite(Exclusion(<<This>>))>>),
     nobody  |-> Union(<<Rewrite(Intersection(<<>>)), Rewrite(Exclusion(<<>>))>>),
     self    |-> Union(<<ComputedUserset("TUPLE_OBJECT", "self")>>),
     odd     |-> Union(<<Rewrite([op |-> "unset", child |-> <<>>])>>),
     broken  |-> Union(<<ComputedUserset("TUPLE_USERSET_OBJECT", "owner")>>)]

\* nsm.ReadNamespaceAndRelation: the relation, or the kind of error
ReadNamespaceAndRelation(ns, rel, rev) ==
    IF ns = "folder"
    THEN IF rel \in DOMAIN FolderRelations
         THEN [err |-> "", UsersetRewrite |-> FolderRelations[rel]]
         ELSE [err |-> "UnknownRelation", UsersetRewrite |-> NilRewrite]
    ELSE IF ns = "user"
         THEN [err |-> "UnknownRelation", UsersetRewrite |-> NilRewrite]
         ELSE [err |-> "UnknownNamespace", UsersetRewrite |-> NilRewrite]

-----------------------------------------------------------------------------
(* The tuple datastore: the tuples live at each revision, in iteration order *)

RelationTuple(onr, user) == [ObjectAndRelation |-> onr, User |-> user]

NilTuple == [ObjectAndRelation |-> NilONR, User |-> NilONR]

BaseTuples ==
    << RelationTuple(ONR("folder", "a", "owner"),  ONR("folder", "b", "owner")),
       RelationTuple(ONR("folder", "a", "owner"),  ONR("user", "u", Ellipsis)),
       RelationTuple(ONR("folder", "a", "parent"), ONR("folder", "b", Ellipsis)),
       RelationTuple(ONR("folder", "a", "editor"), ONR("user", "w", Ellipsis)),
       RelationTuple(ONR("folder", "a", "editor"), ONR("folder", "b", "owner")),
       RelationTuple(ONR("folder", "a", "editor"), ONR("user", "u", Ellipsis)),
       RelationTuple(ONR("folder", "c", "owner"),  ONR("folder", "c", "owner")),
       RelationTuple(ONR("folder", "c", "parent"), ONR("folder", "c", Ellipsis)),
       RelationTuple(ONR("folder", "d", "parent"), ONR("user", "u", Ellipsis)),
       RelationTuple(ONR("folder", "a", "auditor"), ONR("user", "u", Ellipsis)) >>

LaterTuples ==
    << RelationTuple(ONR("folder", "b", "owner"),  ONR("user", "v", Ellipsis)),
       RelationTuple(ONR("folder", "a", "parent"), ONR("folder", "e", Ellipsis)) >>

Revisions == {1, 2}

TuplesAt(rev) == IF rev = 1 THEN BaseTuples ELSE BaseTuples \o LaterTuples

\* QueryTuples reading the newest revision instead of the one it is given
QueryTuplesAtHead(ns, rev, id, rel) ==
    LET Match(tpl) == tpl.ObjectAndRelation = ONR(ns, id, rel)
        head == CHOOSE r \in Revisions : \A o \in Revisions : o <= r
    IN  SelectSeq(TuplesAt(head), Match)

\* ds.QueryTuples(ns, rev).WithObjectID(id).WithRelation(rel): the rows the iterator yields
QueryTuples(ns, rev, id, rel) ==
    LET Match(tpl) == tpl.ObjectAndRelation = ONR(ns, id, rel)
    IN  SelectSeq(TuplesAt(rev), Match)

-----------------------------------------------------------------------------
(* The expander: each method returns a deferred closure (ReduceableExpandFunc) *)

includeStart == "includeStart"

excludeStart == "excludeStart"

\* ce.dispatch(req): the closure that calls the dispatcher
dispatch(req) == [k |-> "dispatch", req |-> req]

\* ce.expandDirect(ctx, req, startBehavior)
expandDirect(req, startBehavior) ==
    [k |-> "direct", req |-> req, startBehavior |-> startBehavior]

\* alwaysFailExpand
alwaysFailExpand == [k |-> "fail"]

\* the construction of a closure panicked
panicExpand == [k |-> "panic"]

\* expandComputedUserset running the sub-request itself instead of handing it to
\* the dispatcher
expandComputedUsersetNoDispatch(req, cu, tpl) ==
    IF cu.Object = "TUPLE_USERSET_OBJECT" /\ tpl = NilTuple
    THEN panicExpand
    ELSE LET start == IF cu.Object = "TUPLE_USERSET_OBJECT" THEN tpl.User
                      ELSE IF tpl # NilTuple THEN tpl.ObjectAndRelation
                      ELSE req.Start
         IN  expandDirect(ExpandRequest(ONR(start[1], start[2], cu.Relation),
                                        req.AtRevision,
                                        DecrDepth(req.DepthRemaining),
                                        req.ExpansionMode), includeStart)

\* expandComputedUserset asking for a recursive expansion of its sub-request
expandComputedUsersetRecursive(req, cu, tpl) ==
    IF cu.Object = "TUPLE_USERSET_OBJECT" /\ tpl = NilTuple
    THEN panicExpand
    ELSE LET start == IF cu.Object = "TUPLE_USERSET_OBJECT" THEN tpl.User
                      ELSE IF tpl # NilTuple THEN tpl.ObjectAndRelation
                      ELSE req.Start
         IN  dispatch(ExpandRequest(ONR(start[1], start[2], cu.Relation),
                                    req.AtRevision,
                                    DecrDepth(req.DepthRemaining),
                                    RecursiveExpansion))

\* expandComputedUserset starting from the object of the tuple where it should
\* start from its user
expandComputedUsersetOfObject(req, cu, tpl) ==
    IF cu.Object = "TUPLE_USERSET_OBJECT" /\ tpl = NilTuple
    THEN panicExpand
    ELSE LET start == IF tpl # NilTuple THEN tpl.ObjectAndRelation ELSE req.Start
         IN  dispatch(ExpandRequest(ONR(start[1], start[2], cu.Relation),
                                    req.AtRevision,
                                    DecrDepth(req.DepthRemaining),
                                    req.ExpansionMode))

\* expandComputedUserset keeping the relation of its start instead of taking the
\* relation of the computed userset
expandComputedUsersetSameRelation(req, cu, tpl) ==
    IF cu.Object = "TUPLE_USERSET_OBJECT" /\ tpl = NilTuple
    THEN panicExpand
    ELSE LET start == IF cu.Object = "TUPLE_USERSET_OBJECT" THEN tpl.User
                      ELSE IF tpl # NilTuple THEN tpl.ObjectAndRelation
                      ELSE req.Start
         IN  dispatch(ExpandRequest(ONR(start[1], start[2], start[3]),
                                    req.AtRevision,
                                    DecrDepth(req.DepthRemaining),
                                    req.ExpansionMode))

\* ce.expandComputedUserset(req, cu, tpl)
expandComputedUserset(req, cu, tpl) ==
    IF cu.Object = "TUPLE_USERSET_OBJECT" /\ tpl = NilTuple
    THEN panicExpand
    ELSE LET start == IF cu.Object = "TUPLE_USERSET_OBJECT" THEN tpl.User
                      ELSE IF tpl # NilTuple THEN tpl.ObjectAndRelation
                      ELSE req.Start
         IN  dispatch(ExpandRequest(ONR(start[1], start[2], cu.Relation),
                                    req.AtRevision,
                                    DecrDepth(req.DepthRemaining),
                                    req.ExpansionMode))

\* ce.expandTupleToUserset(ctx, req, ttu)
expandTupleToUserset(req, ttu) == [k |-> "ttu", req |-> req, ttu |-> ttu]

\* every rewrite operation reduced by ExpandAny
ReducerOfAlwaysAny(op) == "ExpandAny"

\* the reducer ce.expandUsersetRewrite picks for a rewrite operation
ReducerOf(op) ==
    CASE op = "Union" -> "ExpandAny"
      [] op = "Intersection" -> "ExpandAll"
      [] op = "Exclusion" -> "ExpandDifference"
      [] OTHER -> ""

RECURSIVE expandUsersetRewrite(_, _)
\* ce.expandSetOperation(ctx, req, so, reducer): the child closures are built here,
\* none is run
ceExpandSetOperation(req, so, reducer) ==
    LET closureOf(child) ==
            CASE child.t = "this" -> expandDirect(req, excludeStart)
              [] child.t = "cu" -> expandComputedUserset(req, child, NilTuple)
              [] child.t = "rewrite" -> expandUsersetRewrite(req, child.rw)
              [] child.t = "ttu" -> expandTupleToUserset(req, child)
    IN  [k |-> "setop", req |-> req, reducer |-> reducer,
         requests |-> [i \in 1..Len(so.child) |-> closureOf(so.child[i])]]

\* ce.expandUsersetRewrite(ctx, req, usr)
expandUsersetRewrite(req, usr) ==
    IF usr.op \in {"Union", "Intersection", "Exclusion"}
    THEN ceExpandSetOperation(req, usr, ReducerOf(usr.op))
    ELSE alwaysFailExpand

\* ce.expand(ctx, req, relation)
expand(req, relation) ==
    IF relation.UsersetRewrite = NilRewrite
    THEN expandDirect(req, includeStart)
    ELSE expandUsersetRewrite(req, relation.UsersetRewrite)

\* whether building this closure hit the panic of expandComputedUserset
RECURSIVE Panics(_)
Panics(cl) ==
    \/ cl.k = "panic"
    \/ /\ cl.k = "setop"
       /\ \E i \in 1..Len(cl.requests) : Panics(cl.requests[i])

-----------------------------------------------------------------------------
(* The reducers *)

\* the pb.SetOperationUserset_Operation of ExpandAny / ExpandAll / ExpandDifference
OperationOf(reducer) ==
    CASE reducer = "ExpandAny" -> "Union"
      [] reducer = "ExpandAll" -> "Intersection"
      [] reducer = "ExpandDifference" -> "Exclusion"

\* setResult leaving the node without its Expanded
setResultUnlabelled(op, start, children) ==
    ExpandResult([type |-> "inter", expanded |-> NilONR, op |-> op,
                  users |-> <<>>, children |-> children], NoErr)

\* setResult(op, start, children)
setResult(op, start, children) ==
    ExpandResult([type |-> "inter", expanded |-> start, op |-> op,
                  users |-> <<>>, children |-> children], NoErr)

\* capacity of the result channel each reducer makes for a child
SetOperationChanCap == 0

ExpandOneChanCap == 1

\* OnChildResult with the trees collected newest first
OnChildResultNewestFirst(op, start, children, i, n, result) ==
    IF result.Err # NoErr
    THEN [ret |-> TRUE, red |-> ExpandResult(NilTree, result.Err), children |-> children]
    ELSE LET cs == <<result.Tree>> \o children
         IN  IF i = n
             THEN [ret |-> TRUE, red |-> setResult(op, start, cs), children |-> cs]
             ELSE [ret |-> FALSE, red |-> NoResult, children |-> cs]

\* OnChildResult returning the trees collected so far together with the error
OnChildResultPartialTree(op, start, children, i, n, result) ==
    IF result.Err # NoErr
    THEN [ret |-> TRUE,
          red |-> ExpandResult(setResult(op, start, children).Tree, result.Err),
          children |-> children]
    ELSE LET cs == Append(children, result.Tree)
         IN  IF i = n
             THEN [ret |-> TRUE, red |-> setResult(op, start, cs), children |-> cs]
             ELSE [ret |-> FALSE, red |-> NoResult, children |-> cs]

\* OnChildResult looking at the error of the last child only
OnChildResultLastError(op, start, children, i, n, result) ==
    IF i < n
    THEN [ret |-> FALSE, red |-> NoResult,
          children |-> IF result.Err # NoErr THEN children
                       ELSE Append(children, result.Tree)]
    ELSE IF result.Err # NoErr
    THEN [ret |-> TRUE, red |-> ExpandResult(NilTree, result.Err), children |-> children]
    ELSE [ret |-> TRUE, red |-> setResult(op, start, Append(children, result.Tree)),
          children |-> Append(children, result.Tree)]

\* OnChildResult leaving out the children that failed
OnChildResultSkipsErrors(op, start, children, i, n, result) ==
    LET cs == IF result.Err # NoErr THEN children ELSE Append(children, result.Tree)
    IN  IF i = n
        THEN [ret |-> TRUE, red |-> setResult(op, start, cs), children |-> cs]
        ELSE [ret |-> FALSE, red |-> NoResult, children |-> cs]

\* what expandSetOperation does with the result it received from child i of n:
\* return (ret) or go on with the next channel
OnChildResult(op, start, children, i, n, result) ==
    IF result.Err # NoErr
    THEN [ret |-> TRUE, red |-> ExpandResult(NilTree, result.Err), children |-> children]
    ELSE LET cs == Append(children, result.Tree)
         IN  IF i = n
             THEN [ret |-> TRUE, red |-> setResult(op, start, cs), children |-> cs]
             ELSE [ret |-> FALSE, red |-> NoResult, children |-> cs]

\* what ExpandOne does with the result it received
OnOneResult(result) ==
    IF result.Err # NoErr THEN ExpandResult(NilTree, result.Err) ELSE result

\* OnCtxDone reporting the wrong kind of error
OnCtxDoneAlwaysFail == ExpandResult(NilTree, ErrAlwaysFail)

\* the <-ctx.Done() case of both selects
OnCtxDone == ExpandResult(NilTree, ErrRequestCanceled)

-----------------------------------------------------------------------------
(* State: one task per goroutine, keyed by its path in the spawn tree.      *)
(*   cl       the closure the goroutine runs                                *)
(*   ctx      the context it was started with (RootCtx, or the path of the  *)
(*            task whose reducer made the child context)                    *)
(*   cap      capacity of its result channel                                *)
(*   pc       new -> wait (in a reducer's select) -> send -> done           *)
(*   it       the tuple iterator it holds: none / open / closed             *)
(*   q        history: the outcome of the tuple query it made               *)
(*   op,start,n,i,children   the reducer call in progress, awaiting child i *)
(*   users    the users found by expandDirect                               *)
(*   red      what the reducer call returned; res  what the closure sends   *)
(*   sent     history: the sends on its result channel it has completed     *)
(*   late, doneAtCall   history: a later sibling had its result ready       *)
(*            first; the context was already done when the reducer was      *)
(*            called                                                        *)

Root == <<1>>

RootCtx == <<>>

NewTask(cl, ctx, cap) ==
    [cl |-> cl, ctx |-> ctx, cap |-> cap, pc |-> "new", it |-> "none", q |-> "",
     op |-> "", start |-> NilONR, n |-> 0, i |-> 0, children |-> <<>>,
     users |-> <<>>, red |-> NoResult, res |-> NoResult,
     late |-> FALSE, doneAtCall |-> FALSE, sent |-> 0]

Parent(g) == SubSeq(g, 1, Len(g) - 1)

Index(g) == g[Len(g)]

Kid(g, k) == Append(g, k)

\* ctx.Done() is closed: the context or one of its ancestors was cancelled
RECURSIVE Done(_)
Done(c) == \/ c \in cancelled
           \/ c # RootCtx /\ Done(tasks[c].ctx)

Panicked == \E g \in DOMAIN tasks : tasks[g].pc = "panic"

LaterSiblingReady(g) ==
    \E h \in DOMAIN tasks : /\ Len(h) = Len(g)
                            /\ Parent(h) = Parent(g)
                            /\ Index(h) > Index(g)
                            /\ tasks[h].pc = "send"

\* deferred it.Close() when the closure returns
Closed(it) == IF it = "open" THEN "closed" ELSE it

\* a closure that returns with its result without sending it
ReadyWithoutSend(g, t, res) == [t EXCEPT !.res = res, !.pc = "done", !.it = Closed(t.it)]

\* the closure has its result: it goes on to send it (the root call returns it)
Ready(g, t, res) ==
    IF g = Root
    THEN [t EXCEPT !.res = res, !.pc = "done", !.it = Closed(t.it)]
    ELSE [t EXCEPT !.res = res, !.pc = "send", !.late = LaterSiblingReady(g)]

\* the start point included whatever the start behaviour
StartLabelAlways(req, startBehavior) == req.Start

\* expandDirect, lines 70-73: the Expanded of the leaf
StartLabel(req, startBehavior) ==
    IF startBehavior = includeStart THEN req.Start ELSE NilONR

\* AfterExpandAny putting the leaf in front of the expanded non-terminal users
AfterExpandAnyLeafFirst(result, leaf) ==
    IF result.Err # NoErr
    THEN result
    ELSE ExpandResult([result.Tree EXCEPT !.children = <<leaf>> \o @], result.Err)

\* expandDirect after ExpandAny returned (lines 105-120)
AfterExpandAny(result, leaf) ==
    IF result.Err # NoErr
    THEN result
    ELSE ExpandResult([result.Tree EXCEPT !.children = Append(@, leaf)], result.Err)

\* what the closure does with the value its reducer call returned
Finish(t, red) ==
    IF t.cl.k = "direct"
    THEN AfterExpandAny(red, LeafNode(StartLabel(t.cl.req, t.cl.startBehavior), t.users))
    ELSE red

\* the reducer call of task g returns red: the deferred cancelFn of a set
\* operation runs, and the closure goes on with the value
Returned(g, t, red) == Ready(g, [t EXCEPT !.red = red], Finish(t, red))

\* CallReducer looking at the context before anything else
CallReducerChecksCtxFirst(g, t, op, start, requests) ==
    LET t1 == [t EXCEPT !.op = op, !.start = start, !.n = Len(requests),
                        !.doneAtCall = Done(t.ctx)]
    IN  IF Done(t.ctx)
        THEN (g :> Returned(g, t1, OnCtxDone)) @@ tasks
        ELSE IF Len(requests) = 0
        THEN (g :> Returned(g, t1, setResult(op, start, <<>>))) @@ tasks
        ELSE (g :> [t1 EXCEPT !.pc = "wait", !.i = 1])
             @@ [h \in {Kid(g, k) : k \in 1..Len(requests)} |->
                    NewTask(requests[Index(h)], g, SetOperationChanCap)]
             @@ tasks

\* CallReducer starting the children on the context of its caller
CallReducerOnCallerContext(g, t, op, start, requests) ==
    LET t1 == [t EXCEPT !.op = op, !.start = start, !.n = Len(requests),
                        !.doneAtCall = Done(t.ctx)]
    IN  IF Len(requests) = 0
        THEN (g :> Returned(g, t1, setResult(op, start, <<>>))) @@ tasks
        ELSE (g :> [t1 EXCEPT !.pc = "wait", !.i = 1])
             @@ [h \in {Kid(g, k) : k \in 1..Len(requests)} |->
                    NewTask(requests[Index(h)], t.ctx, SetOperationChanCap)]
             @@ tasks

\* expandSetOperation(ctx, start, requests, op) called by task g (lines 243-257)
CallReducer(g, t, op, start, requests) ==
    LET t1 == [t EXCEPT !.op = op, !.start = start, !.n = Len(requests),
                        !.doneAtCall = Done(t.ctx)]
    IN  IF Len(requests) = 0
        THEN (g :> Returned(g, t1, setResult(op, start, <<>>))) @@ tasks
        ELSE (g :> [t1 EXCEPT !.pc = "wait", !.i = 1])
             @@ [h \in {Kid(g, k) : k \in 1..Len(requests)} |->
                    NewTask(requests[Index(h)], g, SetOperationChanCap)]
             @@ tasks

\* ExpandOne making its result channel without a buffer
CallExpandOneUnbuffered(g, t, req) ==
    (g :> [t EXCEPT !.op = "One", !.n = 1, !.i = 1, !.pc = "wait",
                    !.doneAtCall = Done(t.ctx)])
    @@ (Kid(g, 1) :> NewTask(req, t.ctx, SetOperationChanCap))
    @@ tasks

\* ExpandOne(ctx, request) called by task g (lines 291-292)
CallExpandOne(g, t, req) ==
    (g :> [t EXCEPT !.op = "One", !.n = 1, !.i = 1, !.pc = "wait",
                    !.doneAtCall = Done(t.ctx)])
    @@ (Kid(g, 1) :> NewTask(req, t.ctx, ExpandOneChanCap))
    @@ tasks

\* the outcomes of one tuple query: it works, Execute fails, or the iterator
\* ends with an error
QueryOutcomes == {"ok", "exec", "iter"}

\* QueryFailure handing on the error of the datastore as it is
QueryFailureUnwrapped(f) == ExpandResult(NilTree, <<f>>)

\* ExpandResult{nil, NewExpansionFailureErr(err)} for the error of a query
QueryFailure(f) == ExpandResult(NilTree, NewExpansionFailureErr(f))

IsTerminal(user) == user[3] = Ellipsis

IsNonTerminal(user) == ~IsTerminal(user)

\* expandDirect dereferencing what it found even when only a shallow expansion
\* was required
NothingMoreToDoWithoutNonTerminals(req, foundNonTerminalUsersets) ==
    Len(foundNonTerminalUsersets) = 0

\* expandDirect, line 79: only shallow expansion was required, or there are no
\* non-terminal subjects found
NothingMoreToDo(req, foundNonTerminalUsersets) ==
    req.ExpansionMode # RecursiveExpansion \/ Len(foundNonTerminalUsersets) = 0

\* the users of the leaf with the non-terminal users first
LeafUsersNonTerminalFirst(foundTerminalUsersets, foundNonTerminalUsersets) ==
    foundNonTerminalUsersets \o foundTerminalUsersets

\* the users of the leaf with the last found of each kind first
LeafUsersLastFoundFirst(foundTerminalUsersets, foundNonTerminalUsersets) ==
    LET Reversed(seq) == [j \in 1..Len(seq) |-> seq[Len(seq) + 1 - j]]
    IN  Reversed(foundTerminalUsersets) \o Reversed(foundNonTerminalUsersets)

\* append(foundTerminalUsersets, foundNonTerminalUsersets...)
LeafUsers(foundTerminalUsersets, foundNonTerminalUsersets) ==
    foundTerminalUsersets \o foundNonTerminalUsersets

-----------------------------------------------------------------------------
(* Actions *)

\* the root calls the model starts from: start, revision, mode, and whether the
\* caller's context can be cancelled (an RPC's context) or not (context.Background())
BackgroundCalls ==
    { <<"folder", "a", "owner", 1, ShallowExpansion>>,
      <<"folder", "a", "owner", 1, RecursiveExpansion>>,
      <<"folder", "a", "owner", 2, RecursiveExpansion>>,
      <<"folder", "a", "editor", 1, ShallowExpansion>>,
      <<"folder", "a", "editor", 2, RecursiveExpansion>>,
      <<"folder", "a", "viewer", 1, ShallowExpansion>>,
      <<"folder", "a", "viewer", 2, ShallowExpansion>>,
      <<"folder", "c", "viewer", 1, ShallowExpansion>>,
      <<"folder", "d", "viewer", 1, ShallowExpansion>>,
      <<"folder", "c", "owner", 1, RecursiveExpansion>>,
      <<"folder", "a", "auditor", 1, ShallowExpansion>>,
      <<"folder", "a", "nobody", 1, ShallowExpansion>>,
      <<"folder", "a", "self", 1, ShallowExpansion>>,
      <<"folder", "a", "odd", 1, ShallowExpansion>>,
      <<"folder", "a", "broken", 1, ShallowExpansion>>,
      <<"folder", "a", "ghost", 1, ShallowExpansion>>,
      <<"nope", "a", "owner", 1, ShallowExpansion>> }

CancellableCalls ==
    { <<"folder", "a", "owner", 1, RecursiveExpansion>>,
      <<"folder", "a", "editor", 1, ShallowExpansion>>,
      <<"folder", "a", "viewer", 1, ShallowExpansion>>,
      <<"folder", "a", "auditor", 1, ShallowExpansion>>,
      <<"folder", "a", "nobody", 1, ShallowExpansion>>,
      <<"folder", "a", "self", 1, ShallowExpansion>>,
      <<"folder", "a", "odd", 1, ShallowExpansion>> }

\* no request has been handed to the dispatcher
NoRequest == ExpandRequest(NilONR, 0, 0, "")

\* the engine is called directly (as the expand tests do), not through the RPC
NoCall == [pc |-> "none"]

RequestOf(c, d) == ExpandRequest(ONR(c[1], c[2], c[3]), c[4], d, c[5])

\* the root task is the caller's own call of the dispatcher: it returns its result
\* instead of sending it, so the capacity given to it is never used
InitWith(background, withCancel) ==
    /\ \E d \in 0..MaxDepth :
         \/ \E c \in background : request = RequestOf(c, d) /\ cancellable = FALSE
         \/ \E c \in withCancel : request = RequestOf(c, d) /\ cancellable = TRUE
    /\ tasks = (Root :> NewTask(dispatch(request), RootCtx, ExpandOneChanCap))
    /\ cancelled = {}
    /\ rpc = NoCall

Init == InitWith(BackgroundCalls, CancellableCalls)

\* the closure of expandDirect runs up to its result or its call of ExpandAny
RunDirect(g) ==
    LET t == tasks[g]
        req == t.cl.req
    IN  /\ ~Panicked
        /\ t.pc = "new"
        /\ t.cl.k = "direct"
        /\ \E f \in QueryOutcomes :
             LET rows == QueryTuples(req.Start[1], req.AtRevision, req.Start[2], req.Start[3])
                 found == [j \in 1..Len(rows) |-> rows[j].User]
                 foundTerminalUsersets == SelectSeq(found, IsTerminal)
                 foundNonTerminalUsersets == SelectSeq(found, IsNonTerminal)
                 users == LeafUsers(foundTerminalUsersets, foundNonTerminalUsersets)
                 start == StartLabel(req, t.cl.startBehavior)
                 requestsToDispatch ==
                     [j \in 1..Len(foundNonTerminalUsersets) |->
                         dispatch(ExpandRequest(foundNonTerminalUsersets[j],
                                                req.AtRevision,
                                                DecrDepth(req.DepthRemaining),
                                                req.ExpansionMode))]
                 opened == [t EXCEPT !.it = "open", !.q = f, !.users = users]
             IN  tasks' =
                      IF f = "exec"
                      THEN (g :> Ready(g, [t EXCEPT !.q = f], QueryFailure(f))) @@ tasks
                      ELSE IF f = "iter"
                      THEN (g :> Ready(g, [t EXCEPT !.it = "open", !.q = f], QueryFailure(f)))
                           @@ tasks
                      ELSE IF NothingMoreToDo(req, foundNonTerminalUsersets)
                      THEN (g :> Ready(g, opened, ExpandResult(LeafNode(start, users), NoErr)))
                           @@ tasks
                      ELSE CallReducer(g, opened, "Union", req.Start, requestsToDispatch)
        /\ UNCHANGED <<cancelled, request, cancellable, rpc>>

\* the closure of ce.expandSetOperation runs: it calls its reducer
RunSetOperation(g) ==
    LET t == tasks[g]
    IN  /\ ~Panicked
        /\ t.pc = "new"
        /\ t.cl.k = "setop"
        /\ tasks' = CallReducer(g, t, OperationOf(t.cl.reducer), t.cl.req.Start, t.cl.requests)
        /\ UNCHANGED <<cancelled, request, cancellable, rpc>>

\* the closure of expandTupleToUserset runs up to its result or its call of ExpandAny
RunTupleToUserset(g) ==
    LET t == tasks[g]
        req == t.cl.req
    IN  /\ ~Panicked
        /\ t.pc = "new"
        /\ t.cl.k = "ttu"
        /\ \E f \in QueryOutcomes :
             LET rows == QueryTuples(req.Start[1], req.AtRevision, req.Start[2], t.cl.ttu.Tupleset)
                 requestsToDispatch ==
                     [j \in 1..Len(rows) |-> expandComputedUserset(req, t.cl.ttu, rows[j])]
             IN  tasks' =
                      IF f = "exec"
                      THEN (g :> Ready(g, [t EXCEPT !.q = f], QueryFailure(f))) @@ tasks
                      ELSE IF f = "iter"
                      THEN (g :> Ready(g, [t EXCEPT !.it = "open", !.q = f], QueryFailure(f)))
                           @@ tasks
                      ELSE CallReducer(g, [t EXCEPT !.it = "open", !.q = f], "Union", req.Start,
                                       requestsToDispatch)
        /\ UNCHANGED <<cancelled, request, cancellable, rpc>>

\* the local dispatcher's Expand: the depth guard, the namespace lookup, then
\* ExpandOne on the expander's closure
DispatcherExpand(g, t, req) ==
    IF req.DepthRemaining = 0
    THEN (g :> Ready(g, t, ExpandResult(NilTree, NewExpansionFailureErr("MaxDepthExceeded"))))
         @@ tasks
    ELSE LET relation == ReadNamespaceAndRelation(req.Start[1], req.Start[3], req.AtRevision)
         IN  IF relation.err # ""
             THEN (g :> Ready(g, t, ExpandResult(NilTree, NewExpansionFailureErr(relation.err))))
                  @@ tasks
             ELSE IF Panics(expand(req, relation))
             THEN (g :> [t EXCEPT !.pc = "panic"]) @@ tasks
             ELSE CallExpandOne(g, t, expand(req, relation))

\* the closure of ce.dispatch runs (the root task is the caller's own call of
\* the dispatcher)
RunDispatch(g) ==
    LET t == tasks[g]
    IN  /\ ~Panicked
        /\ t.pc = "new"
        /\ t.cl.k = "dispatch"
        /\ tasks' = DispatcherExpand(g, t, t.cl.req)
        /\ UNCHANGED <<cancelled, request, cancellable, rpc>>

\* alwaysFailExpand runs
RunAlwaysFail(g) ==
    LET t == tasks[g]
    IN  /\ ~Panicked
        /\ t.pc = "new"
        /\ t.cl.k = "fail"
        /\ tasks' = (g :> Ready(g, t, ExpandResult(NilTree, ErrAlwaysFail))) @@ tasks
        /\ UNCHANGED <<cancelled, request, cancellable, rpc>>

\* a value can be received from the result channel of task c
Available(c) ==
    IF tasks[c].cap = 0 THEN tasks[c].pc = "send" ELSE tasks[c].pc = "done"

\* the sender of a received value: an unbuffered send completes with the receive
Delivered(c) ==
    IF tasks[c].cap = 0
    THEN [tasks[c] EXCEPT !.pc = "done", !.it = Closed(@), !.sent = @ + 1]
    ELSE tasks[c]

\* a cancelFn that cancels the caller's context along with the child context
CancelFnOfCaller(g, t) == IF t.op = "One" THEN {} ELSE {g, t.ctx}

\* the child contexts cancelled when the reducer call of task g returns
CancelFn(g, t) == IF t.op = "One" THEN {} ELSE {g}

\* a reducer that takes the results in the order they arrive instead of the
\* order of its channels
ReceiveArrivalOrder(g) ==
    LET t == tasks[g]
    IN  /\ ~Panicked
        /\ t.pc = "wait"
        /\ \E k \in 1..t.n :
             LET c == Kid(g, k)
                 o == IF t.op = "One"
                      THEN [ret |-> TRUE, red |-> OnOneResult(tasks[c].res), children |-> <<>>]
                      ELSE OnChildResult(t.op, t.start, t.children, t.i, t.n, tasks[c].res)
             IN  /\ Available(c)
                 /\ tasks[c].pc # "done" \/ t.op = "One"
                 /\ tasks' = IF o.ret
                             THEN (g :> Returned(g, [t EXCEPT !.children = o.children], o.red))
                                  @@ (c :> Delivered(c)) @@ tasks
                             ELSE (g :> [t EXCEPT !.children = o.children, !.i = t.i + 1])
                                  @@ (c :> Delivered(c)) @@ tasks
                 /\ cancelled' = IF o.ret THEN cancelled \cup CancelFn(g, t) ELSE cancelled
        /\ UNCHANGED <<request, cancellable, rpc>>

\* the select of a reducer takes the case result := <-resultChan
Receive(g) ==
    LET t == tasks[g]
        c == Kid(g, t.i)
        o == IF t.op = "One"
             THEN [ret |-> TRUE, red |-> OnOneResult(tasks[c].res), children |-> <<>>]
             ELSE OnChildResult(t.op, t.start, t.children, t.i, t.n, tasks[c].res)
    IN  /\ ~Panicked
        /\ t.pc = "wait"
        /\ Available(c)
        /\ tasks' = IF o.ret
                    THEN (g :> Returned(g, [t EXCEPT !.children = o.children], o.red))
                         @@ (c :> Delivered(c)) @@ tasks
                    ELSE (g :> [t EXCEPT !.children = o.children, !.i = t.i + 1])
                         @@ (c :> Delivered(c)) @@ tasks
        /\ cancelled' = IF o.ret THEN cancelled \cup CancelFn(g, t) ELSE cancelled
        /\ UNCHANGED <<request, cancellable, rpc>>

\* a select without the case <-ctx.Done()
CanceledNever(g) == FALSE /\ UNCHANGED vars

\* the select of a reducer takes the case <-ctx.Done()
Canceled(g) ==
    LET t == tasks[g]
    IN  /\ ~Panicked
        /\ t.pc = "wait"
        /\ Done(t.ctx)
        /\ tasks' = (g :> Returned(g, t, OnCtxDone)) @@ tasks
        /\ cancelled' = cancelled \cup CancelFn(g, t)
        /\ UNCHANGED <<request, cancellable, rpc>>

\* resultChan <- result on a channel with room in its buffer; the closure returns
Send(g) ==
    LET t == tasks[g]
    IN  /\ ~Panicked
        /\ t.pc = "send"
        /\ t.cap > 0
        /\ tasks' = (g :> [t EXCEPT !.pc = "done", !.it = Closed(@), !.sent = @ + 1]) @@ tasks
        /\ UNCHANGED <<cancelled, request, cancellable, rpc>>

\* the caller's context is cancelled (client gone, deadline)
Cancel ==
    /\ ~Panicked
    /\ cancellable
    /\ RootCtx \notin cancelled
    /\ cancelled' = cancelled \cup {RootCtx}
    /\ UNCHANGED <<tasks, request, cancellable, rpc>>

Next ==
    \/ \E g \in DOMAIN tasks : RunDirect(g)
    \/ \E g \in DOMAIN tasks : RunSetOperation(g)
    \/ \E g \in DOMAIN tasks : RunTupleToUserset(g)
    \/ \E g \in DOMAIN tasks : RunDispatch(g)
    \/ \E g \in DOMAIN tasks : RunAlwaysFail(g)
    \/ \E g \in DOMAIN tasks : Receive(g)
    \/ \E g \in DOMAIN tasks : Canceled(g)
    \/ \E g \in DOMAIN tasks : Send(g)
    \/ Cancel

Spec == Init /\ [][Next]_vars

-----------------------------------------------------------------------------
(* Vocabulary of the properties *)

SetOperations == {"Union", "Intersection", "Exclusion"}

\* task g has called ExpandAny / ExpandAll / ExpandDifference
InSetOperation(g) == tasks[g].op \in SetOperations

\* the reducer call of task g has returned
ReducerReturned(g) == tasks[g].op # "" /\ tasks[g].red # NoResult

\* the reducer call of task g is in its select
Waiting(g) == tasks[g].pc = "wait"

HasResult(g) == tasks[g].res # NoResult

IsError(result) == result.Err # NoErr

\* the children of a reducer call that produced an error
ErroringKids(g) ==
    { k \in 1..tasks[g].n : HasResult(Kid(g, k)) /\ IsError(tasks[Kid(g, k)].res) }

Least(S) == CHOOSE k \in S : \A j \in S : k <= j

-----------------------------------------------------------------------------
(* C1: a reducer that succeeds returns an Intermediate node whose children  *)
(* are exactly the result trees of its children, one per request, in the    *)
(* order of the request list, whatever the order the children completed in. *)
C1_ChildrenInRequestOrder ==
    \A g \in DOMAIN tasks :
        (InSetOperation(g) /\ ReducerReturned(g) /\ ~IsError(tasks[g].red)) =>
            /\ tasks[g].red.Tree.type = "inter"
            /\ Len(tasks[g].red.Tree.children) = tasks[g].n
            /\ \A k \in 1..tasks[g].n :
                  /\ HasResult(Kid(g, k))
                  /\ tasks[g].red.Tree.children[k] = tasks[Kid(g, k)].res.Tree

\* a reducer succeeded although its first child had its result ready only after
\* a later sibling
C1_Witness ==
    \E g \in DOMAIN tasks :
        /\ InSetOperation(g) /\ ReducerReturned(g) /\ ~IsError(tasks[g].red)
        /\ tasks[g].n >= 2
        /\ tasks[Kid(g, 1)].late
        /\ tasks[g].red.Tree.children[1] # tasks[g].red.Tree.children[2]

(* C2: every ExpandResult a reducer returns or a closure delivers has       *)
(* exactly one of Tree and Err set: no tree comes with an error.            *)
C2_TreeXorErr ==
    \A g \in DOMAIN tasks :
        /\ ReducerReturned(g) => ((tasks[g].red.Tree = NilTree) # (tasks[g].red.Err = NoErr))
        /\ HasResult(g) => ((tasks[g].res.Tree = NilTree) # (tasks[g].res.Err = NoErr))

\* a reducer failed after it had already collected the tree of an earlier child
C2_Witness ==
    \E g \in DOMAIN tasks :
        /\ InSetOperation(g) /\ ReducerReturned(g) /\ IsError(tasks[g].red)
        /\ Len(tasks[g].children) >= 1
        /\ HasResult(g) /\ tasks[g].res.Tree = NilTree

(* C3: while its context is not cancelled, a reducer that fails returns the *)
(* error of the erroring child with the lowest index, and every child       *)
(* before that one has delivered a tree.                                    *)
C3_FirstErrorInListOrder ==
    \A g \in DOMAIN tasks :
        (InSetOperation(g) /\ ReducerReturned(g) /\ IsError(tasks[g].red)
            /\ ~Done(tasks[g].ctx)) =>
            /\ ErroringKids(g) # {}
            /\ tasks[g].red.Err = tasks[Kid(g, Least(ErroringKids(g)))].res.Err
            /\ \A j \in 1..(Least(ErroringKids(g)) - 1) :
                  HasResult(Kid(g, j)) /\ tasks[Kid(g, j)].pc = "done"

\* two children failed with different errors, the first of them last
C3_Witness ==
    \E g \in DOMAIN tasks :
        /\ InSetOperation(g) /\ ReducerReturned(g) /\ IsError(tasks[g].red)
        /\ ~Done(tasks[g].ctx)
        /\ \E a, b \in ErroringKids(g) :
              /\ a < b
              /\ a = Least(ErroringKids(g))
              /\ tasks[Kid(g, a)].late
              /\ tasks[Kid(g, a)].res.Err # tasks[Kid(g, b)].res.Err
              /\ tasks[g].red.Err = tasks[Kid(g, a)].res.Err

-----------------------------------------------------------------------------
\* the scheduler runs a select that has a ready case; nothing is assumed about
\* how fast (or whether) the children produce their results
FairSelects == WF_vars(\E g \in DOMAIN tasks : Receive(g) \/ Canceled(g))

SpecSelect == Spec /\ FairSelects

\* every goroutine that can take a step eventually takes one
FairTasks ==
    WF_vars(\E g \in DOMAIN tasks :
               \/ RunDirect(g) \/ RunSetOperation(g) \/ RunTupleToUserset(g)
               \/ RunDispatch(g) \/ RunAlwaysFail(g)
               \/ Receive(g) \/ Canceled(g) \/ Send(g))

SpecTasks == Spec /\ FairTasks

(* C4 as stated: a set-operation reducer whose context is cancelled before  *)
(* all of its children have delivered returns RequestCanceled, nothing else.*)
C4_CanceledBeforeAllDelivered ==
    [][\A g \in DOMAIN tasks :
          (InSetOperation(g) /\ Waiting(g) /\ Done(tasks[g].ctx)
              /\ tasks'[g].pc # "wait") =>
             tasks'[g].red = ExpandResult(NilTree, ErrRequestCanceled)]_vars

(* C4 amended: a set-operation reducer whose context is cancelled while the *)
(* child it awaits has no result ready returns RequestCanceled at its next  *)
(* step, without receiving from that child; only when the awaited child's   *)
(* result is ready at the same time may the select take that result instead.*)
C4_CanceledUnlessResultReady ==
    [][\A g \in DOMAIN tasks :
          (InSetOperation(g) /\ Waiting(g) /\ Done(tasks[g].ctx)
              /\ ~Available(Kid(g, tasks[g].i))
              /\ tasks'[g] # tasks[g]) =>
             /\ tasks'[g].pc # "wait"
             /\ tasks'[g].red = ExpandResult(NilTree, ErrRequestCanceled)
             /\ tasks'[Kid(g, tasks[g].i)] = tasks[Kid(g, tasks[g].i)]]_vars

\* a set-operation reducer returned RequestCanceled while the child it awaited
\* had not produced a result, after it had received from an earlier child
C4_Witness ==
    \E g \in DOMAIN tasks :
        /\ InSetOperation(g) /\ ReducerReturned(g)
        /\ tasks[g].red = ExpandResult(NilTree, ErrRequestCanceled)
        /\ tasks[g].i = 2
        /\ ~HasResult(Kid(g, 2))

(* C5: once its context is cancelled, every reducer in flight (Any / All /  *)
(* Difference / One) eventually returns, even if its children never deliver.*)
CanceledInFlight == \E g \in DOMAIN tasks : Waiting(g) /\ Done(tasks[g].ctx)

C5_CanceledReducersReturn == CanceledInFlight ~> ~CanceledInFlight

\* ExpandOne returned RequestCanceled although its child never ran
C5_Witness ==
    \E g \in DOMAIN tasks :
        /\ tasks[g].op = "One" /\ ReducerReturned(g)
        /\ tasks[g].red = ExpandResult(NilTree, ErrRequestCanceled)
        /\ tasks[Kid(g, 1)].pc = "new"

(* C6: after a set-operation reducer has returned, every child it spawned   *)
(* can still perform the send of its result: none stays blocked on its      *)
(* result channel.                                                          *)
C6_NoChildBlockedOnSend ==
    \A c \in DOMAIN tasks :
        (c # Root /\ tasks[c].pc = "send" /\ InSetOperation(Parent(c))
            /\ ReducerReturned(Parent(c))) =>
            tasks[c].cap > 0

(* C7: a reducer called with an empty child list returns                    *)
(* Intermediate(start, op, []) with its own op, never an error, and spawns  *)
(* no child, also when its context is already cancelled.                    *)
C7_EmptyListGivesEmptyNode ==
    \A g \in DOMAIN tasks :
        (InSetOperation(g) /\ tasks[g].n = 0) =>
            /\ tasks[g].red.Err = NoErr
            /\ tasks[g].red.Tree.type = "inter"
            /\ tasks[g].red.Tree.children = <<>>
            /\ tasks[g].red.Tree.expanded = tasks[g].cl.req.Start
            /\ tasks[g].cl.k = "setop" =>
                  tasks[g].red.Tree.op =
                      (CASE tasks[g].cl.reducer = "ExpandAny" -> "Union"
                         [] tasks[g].cl.reducer = "ExpandAll" -> "Intersection"
                         [] tasks[g].cl.reducer = "ExpandDifference" -> "Exclusion")
            /\ tasks[g].cl.k \in {"ttu", "direct"} => tasks[g].red.Tree.op = "Union"
            /\ Kid(g, 1) \notin DOMAIN tasks

\* ExpandAll was called with an empty list under a context already cancelled
C7_Witness ==
    \E g \in DOMAIN tasks :
        /\ InSetOperation(g) /\ tasks[g].n = 0
        /\ tasks[g].cl.k = "setop" /\ tasks[g].cl.reducer = "ExpandAll"
        /\ tasks[g].doneAtCall
        /\ tasks[g].red.Tree.op = "Intersection"

ErrMaxDepthExceeded == NewExpansionFailureErr("MaxDepthExceeded")

\* task g runs a request that has no depth left
DepthExhausted(g) == tasks[g].cl.k = "dispatch" /\ tasks[g].cl.req.DepthRemaining = 0

(* C8: a request that reaches the dispatcher with depth_remaining = 0 is    *)
(* answered ExpansionFailure(MaxDepthExceeded) at once (no lookup, no child,*)
(* no tuple read), so no closure that reads tuples or builds a tree node    *)
(* ever runs for a request whose depth_remaining is less than 1.            *)
C8_NothingBelowDepthOne ==
    \A g \in DOMAIN tasks :
        /\ tasks[g].cl.k \in {"direct", "setop", "ttu"} =>
              tasks[g].cl.req.DepthRemaining >= 1
        /\ (DepthExhausted(g) /\ tasks[g].pc # "new") =>
              /\ tasks[g].res = ExpandResult(NilTree, ErrMaxDepthExceeded)
              /\ tasks[g].op = ""
              /\ tasks[g].it = "none"
              /\ Kid(g, 1) \notin DOMAIN tasks
        /\ (HasResult(g) /\ tasks[g].res.Tree # NilTree /\ tasks[g].cl.k # "fail") =>
              tasks[g].cl.req.DepthRemaining >= 1

\* a sub-request was dispatched with no depth left and was refused
C8_Witness ==
    \E g \in DOMAIN tasks :
        /\ g # Root
        /\ DepthExhausted(g)
        /\ tasks[g].res = ExpandResult(NilTree, ErrMaxDepthExceeded)

(* C9: every expansion started with a finite depth budget terminates with a *)
(* result (a tree or an error), for every schema and tuple set.             *)
C9_ExpansionTerminates == <>(tasks[Root].pc = "done")

\* apart from the panic of expandComputedUserset, every expansion terminates
TerminatesUnlessPanic == <>(tasks[Root].pc = "done" \/ Panicked)

\* g and all the tasks g was spawned under
Ancestors(g) == { SubSeq(g, 1, m) : m \in 1..Len(g) }

(* C10: if any sub-request of an expansion reaches depth_remaining = 0,     *)
(* every result produced above it, up to the root result, is an error with  *)
(* no tree.                                                                 *)
C10_DepthExhaustionIsFatal ==
    \A g \in DOMAIN tasks :
        DepthExhausted(g) =>
            \A a \in Ancestors(g) :
                HasResult(a) => (IsError(tasks[a].res) /\ tasks[a].res.Tree = NilTree)

\* the root call returned MaxDepthExceeded for a sub-request two reducers below
C10_Witness ==
    /\ tasks[Root].pc = "done"
    /\ tasks[Root].res = ExpandResult(NilTree, ErrMaxDepthExceeded)
    /\ \E g \in DOMAIN tasks : Len(g) >= 3 /\ DepthExhausted(g) /\ HasResult(g)

-----------------------------------------------------------------------------
(* What expandDirect found and produced *)

\* task g runs the closure of expandDirect
IsDirect(g) == tasks[g].cl.k = "direct"

\* the closure of task g delivered a tree
Succeeded(g) == HasResult(g) /\ ~IsError(tasks[g].res)

\* the users of the tuples of the start of task g at revision rev, in the order
\* the datastore holds them
FoundAt(g, rev) ==
    LET start == tasks[g].cl.req.Start
        OfStart(tpl) == tpl.ObjectAndRelation = start
        rows == SelectSeq(TuplesAt(rev), OfStart)
    IN  [j \in 1..Len(rows) |-> rows[j].User]

Found(g) == FoundAt(g, tasks[g].cl.req.AtRevision)

TerminalsOf(users) == SelectSeq(users, LAMBDA u : u[3] = Ellipsis)

NonTerminalsOf(users) == SelectSeq(users, LAMBDA u : u[3] # Ellipsis)

RangeOf(seq) == { seq[j] : j \in 1..Len(seq) }

\* the leaf in the tree delivered by the expandDirect of task g: the tree itself,
\* or the last child of the union over the expanded non-terminal users
DirectLeaf(g) ==
    LET tree == tasks[g].res.Tree
    IN  IF tree.type = "leaf" THEN tree ELSE tree.children[Len(tree.children)]

(* C11: in Shallow mode expandDirect never dispatches a sub-request for a   *)
(* non-terminal subject it finds: it calls no reducer and spawns no child,  *)
(* and when its query works it returns a single leaf holding every user     *)
(* found, the non-terminal ones included.                                   *)
C11_ShallowNeverDereferences ==
    \A g \in DOMAIN tasks :
        (IsDirect(g) /\ tasks[g].cl.req.ExpansionMode = ShallowExpansion) =>
            /\ tasks[g].op = ""
            /\ Kid(g, 1) \notin DOMAIN tasks
            /\ (HasResult(g) /\ tasks[g].q = "ok") =>
                  /\ tasks[g].res.Err = NoErr
                  /\ tasks[g].res.Tree.type = "leaf"
                  /\ RangeOf(tasks[g].res.Tree.users) = RangeOf(Found(g))
                  /\ Len(tasks[g].res.Tree.users) = Len(Found(g))

\* a shallow expandDirect delivered a leaf that holds a non-terminal user
C11_Witness ==
    \E g \in DOMAIN tasks :
        /\ IsDirect(g) /\ tasks[g].cl.req.ExpansionMode = ShallowExpansion
        /\ Succeeded(g)
        /\ tasks[g].res.Tree.type = "leaf"
        /\ NonTerminalsOf(tasks[g].res.Tree.users) # <<>>
        /\ TerminalsOf(tasks[g].res.Tree.users) # <<>>

(* C12: the users of every leaf produced by expandDirect are all terminal   *)
(* users the query found, in query order, followed by all non-terminal      *)
(* users found, in query order: none missing, none twice.                   *)
C12_TerminalsThenNonTerminals ==
    \A g \in DOMAIN tasks :
        (IsDirect(g) /\ Succeeded(g)) =>
            DirectLeaf(g).users = TerminalsOf(Found(g)) \o NonTerminalsOf(Found(g))

\* a leaf whose users are not in query order: a non-terminal user was found
\* between two terminal ones
C12_Witness ==
    \E g \in DOMAIN tasks :
        /\ IsDirect(g) /\ Succeeded(g)
        /\ Len(TerminalsOf(Found(g))) >= 2
        /\ NonTerminalsOf(Found(g)) # <<>>
        /\ DirectLeaf(g).users # Found(g)

(* C13: the leaf produced by expandDirect is labelled with req.Start when   *)
(* the relation is direct (includeStart) and has no label when it stands    *)
(* for a _this child of a rewrite (excludeStart), in Shallow and in         *)
(* Recursive mode.                                                          *)
C13_LeafLabelFollowsStartBehavior ==
    \A g \in DOMAIN tasks :
        (IsDirect(g) /\ Succeeded(g)) =>
            /\ DirectLeaf(g).type = "leaf"
            /\ tasks[g].cl.startBehavior = includeStart =>
                  DirectLeaf(g).expanded = tasks[g].cl.req.Start
            /\ tasks[g].cl.startBehavior = excludeStart =>
                  DirectLeaf(g).expanded = NilONR

\* a recursive expandDirect run for a _this child put an unlabelled leaf after
\* the expanded non-terminal users
C13_Witness ==
    \E g \in DOMAIN tasks :
        /\ IsDirect(g) /\ Succeeded(g)
        /\ tasks[g].cl.startBehavior = excludeStart
        /\ tasks[g].cl.req.ExpansionMode = RecursiveExpansion
        /\ tasks[g].res.Tree.type = "inter"
        /\ DirectLeaf(g).expanded = NilONR
        /\ DirectLeaf(g).users # <<>>

-----------------------------------------------------------------------------
\* the closures that were made for a request
HasRequest(g) == tasks[g].cl.k \in {"dispatch", "direct", "setop", "ttu"}

(* C15: in every tree that is delivered, the Expanded of a node, when it is *)
(* present, is the Start of the (sub-)request that produced the node; an    *)
(* intermediate node always has it; and the root of the tree returned to    *)
(* the caller is labelled with the Start of the original request.           *)
C15_LabelsMatchRequests ==
    /\ \A g \in DOMAIN tasks :
          (HasRequest(g) /\ Succeeded(g)) =>
              /\ tasks[g].res.Tree.expanded \in {NilONR, tasks[g].cl.req.Start}
              /\ tasks[g].res.Tree.type = "inter" =>
                    tasks[g].res.Tree.expanded = tasks[g].cl.req.Start
              /\ IsDirect(g) => DirectLeaf(g).expanded \in {NilONR, tasks[g].cl.req.Start}
    /\ Succeeded(Root) => tasks[Root].res.Tree.expanded = request.Start

\* the caller got a tree labelled with its request, with an unlabelled child and
\* a child labelled with the start of a sub-request
C15_Witness ==
    /\ tasks[Root].pc = "done" /\ Succeeded(Root)
    /\ tasks[Root].res.Tree.expanded = request.Start
    /\ \E i, j \in 1..Len(tasks[Root].res.Tree.children) :
          /\ tasks[Root].res.Tree.children[i].expanded = NilONR
          /\ tasks[Root].res.Tree.children[j].expanded \notin {NilONR, request.Start}

\* the tuples of the tupleset of task g at revision rev
TuplesetAt(g, rev) ==
    LET OfTupleset(tpl) ==
            tpl.ObjectAndRelation = ONR(tasks[g].cl.req.Start[1], tasks[g].cl.req.Start[2],
                                        tasks[g].cl.ttu.Tupleset)
    IN  SelectSeq(TuplesAt(rev), OfTupleset)

(* C16: every sub-request, at any depth, carries the AtRevision of the      *)
(* original request, and every tuple query (the direct reads and the        *)
(* tupleset reads) sees the tuples of exactly that revision.                *)
C16_RevisionPinned ==
    \A g \in DOMAIN tasks :
        /\ HasRequest(g) => tasks[g].cl.req.AtRevision = request.AtRevision
        /\ (IsDirect(g) /\ tasks[g].q = "ok") =>
              tasks[g].users = TerminalsOf(FoundAt(g, request.AtRevision))
                                  \o NonTerminalsOf(FoundAt(g, request.AtRevision))
        /\ (tasks[g].cl.k = "ttu" /\ tasks[g].q = "ok") =>
              /\ tasks[g].n = Len(TuplesetAt(g, request.AtRevision))
              /\ \A j \in 1..tasks[g].n :
                    tasks[Kid(g, j)].cl.req.Start[2] =
                        TuplesetAt(g, request.AtRevision)[j].User[2]

\* a sub-request of an expansion at the first revision read a relation that has
\* a tuple only at the later revision, and did not see it
C16_Witness ==
    \E g \in DOMAIN tasks :
        /\ Len(g) >= 3
        /\ IsDirect(g) /\ tasks[g].q = "ok"
        /\ request.AtRevision = 1
        /\ tasks[g].users = <<>>
        /\ FoundAt(g, 2) # <<>>

\* The expansion of a closure on a single goroutine: every child is run to its
\* end, one after the other, in the order of the list.
RECURSIVE SeqRun(_)
SeqReduce(op, start, requests) ==
    LET results == [j \in 1..Len(requests) |-> SeqRun(requests[j])]
        failed == { j \in 1..Len(requests) : results[j].Err # NoErr }
    IN  IF failed = {}
        THEN ExpandResult([type |-> "inter", expanded |-> start, op |-> op, users |-> <<>>,
                           children |-> [j \in 1..Len(requests) |-> results[j].Tree]], NoErr)
        ELSE ExpandResult(NilTree, results[Least(failed)].Err)

SeqRun(cl) ==
    CASE cl.k = "dispatch" ->
            IF cl.req.DepthRemaining = 0
            THEN ExpandResult(NilTree, NewExpansionFailureErr("MaxDepthExceeded"))
            ELSE LET relation == ReadNamespaceAndRelation(cl.req.Start[1], cl.req.Start[3],
                                                          cl.req.AtRevision)
                 IN  IF relation.err # ""
                     THEN ExpandResult(NilTree, NewExpansionFailureErr(relation.err))
                     ELSE SeqRun(expand(cl.req, relation))
      [] cl.k = "direct" ->
            LET OfStart(tpl) == tpl.ObjectAndRelation = cl.req.Start
                rows == SelectSeq(TuplesAt(cl.req.AtRevision), OfStart)
                found == [j \in 1..Len(rows) |-> rows[j].User]
                nt == NonTerminalsOf(found)
                leaf == LeafNode(IF cl.startBehavior = includeStart THEN cl.req.Start
                                 ELSE NilONR, TerminalsOf(found) \o nt)
                any == SeqReduce("Union", cl.req.Start,
                                 [j \in 1..Len(nt) |->
                                     dispatch(ExpandRequest(nt[j], cl.req.AtRevision,
                                                            DecrDepth(cl.req.DepthRemaining),
                                                            cl.req.ExpansionMode))])
            IN  IF cl.req.ExpansionMode = ShallowExpansion \/ nt = <<>>
                THEN ExpandResult(leaf, NoErr)
                ELSE IF any.Err # NoErr
                THEN any
                ELSE ExpandResult([any.Tree EXCEPT !.children = Append(@, leaf)], NoErr)
      [] cl.k = "setop" ->
            SeqReduce(OperationOf(cl.reducer), cl.req.Start, cl.requests)
      [] cl.k = "ttu" ->
            LET OfTupleset(tpl) ==
                    tpl.ObjectAndRelation = ONR(cl.req.Start[1], cl.req.Start[2],
                                                cl.ttu.Tupleset)
                rows == SelectSeq(TuplesAt(cl.req.AtRevision), OfTupleset)
            IN  SeqReduce("Union", cl.req.Start,
                          [j \in 1..Len(rows) |-> expandComputedUserset(cl.req, cl.ttu, rows[j])])
      [] OTHER -> ExpandResult(NilTree, ErrAlwaysFail)

\* no tuple query of the expansion failed
NoDatastoreError == \A g \in DOMAIN tasks : tasks[g].q \notin {"exec", "iter"}

(* C17: absent cancellation and datastore errors, the result the caller     *)
(* gets is a function of the request, the schema and the tuples at the      *)
(* revision: whatever the interleaving of the children, it is the result of *)
(* the expansion run on a single goroutine, so two expansions of the same   *)
(* request at the same revision give equal trees.                           *)
C17_ResultIsFunctionOfRequest ==
    (tasks[Root].pc = "done" /\ RootCtx \notin cancelled /\ NoDatastoreError) =>
        tasks[Root].res = SeqRun(dispatch(request))

\* the caller got a tree with two different subtrees although the first child
\* had its result ready only after the second
C17_Witness ==
    /\ tasks[Root].pc = "done" /\ Succeeded(Root) /\ NoDatastoreError
    /\ RootCtx \notin cancelled
    /\ \E g \in DOMAIN tasks :
          /\ Len(g) = 3 /\ Index(g) = 1 /\ tasks[g].late
          /\ InSetOperation(Parent(g))
    /\ Len(tasks[Root].res.Tree.children) >= 2
    /\ tasks[Root].res.Tree.children[1] # tasks[Root].res.Tree.children[2]
    /\ tasks[Root].res = SeqRun(dispatch(request))

-----------------------------------------------------------------------------
\* the dispatcher was asked to expand a relation whose rewrite has, outside any
\* tupleset-to-userset, a computed userset of the tupleset's object
ExpandsNilTupleUserset(g) ==
    /\ tasks[g].cl.k = "dispatch"
    /\ tasks[g].pc # "new"
    /\ tasks[g].cl.req.DepthRemaining > 0
    /\ LET req == tasks[g].cl.req
           relation == ReadNamespaceAndRelation(req.Start[1], req.Start[3], req.AtRevision)
       IN  relation.err = "" /\ Panics(expand(req, relation))

(* C18: a computed userset of a tupleset (TUPLE_USERSET_OBJECT) that is     *)
(* expanded without a tuple yields the result AlwaysFail with no tree: no   *)
(* goroutine of the engine ever panics.                                     *)
C18_NilTupleGivesAlwaysFail ==
    \A g \in DOMAIN tasks :
        /\ tasks[g].pc # "panic"
        /\ (ExpandsNilTupleUserset(g) /\ tasks[g].pc = "done") =>
              tasks[g].res = ExpandResult(NilTree, ErrAlwaysFail)

(* C19: when a tuple query fails to execute or its iterator ends with an    *)
(* error, expandDirect and expandTupleToUserset deliver ExpansionFailure    *)
(* wrapping that error, with no tree, and dispatch nothing; a query that    *)
(* yields no row is no error: it gives an empty leaf (direct) or an empty   *)
(* union (tupleset).                                                        *)
C19_QueryFailureIsExpansionFailure ==
    \A g \in DOMAIN tasks :
        /\ (tasks[g].cl.k \in {"direct", "ttu"} /\ tasks[g].q \in {"exec", "iter"}) =>
              /\ tasks[g].res = ExpandResult(NilTree, <<"ExpansionFailure", tasks[g].q>>)
              /\ tasks[g].op = ""
              /\ Kid(g, 1) \notin DOMAIN tasks
        /\ (IsDirect(g) /\ tasks[g].q = "ok" /\ Found(g) = <<>>) =>
              tasks[g].res =
                  ExpandResult(LeafNode(IF tasks[g].cl.startBehavior = includeStart
                                        THEN tasks[g].cl.req.Start ELSE NilONR, <<>>), NoErr)
        /\ (tasks[g].cl.k = "ttu" /\ tasks[g].q = "ok"
               /\ TuplesetAt(g, tasks[g].cl.req.AtRevision) = <<>>) =>
              /\ tasks[g].res.Err = NoErr
              /\ tasks[g].res.Tree.type = "inter" /\ tasks[g].res.Tree.op = "Union"
              /\ tasks[g].res.Tree.expanded = tasks[g].cl.req.Start
              /\ tasks[g].res.Tree.children = <<>>

\* the iterator of a tupleset that has tuples ended with an error: the closure
\* delivered the failure and dispatched nothing
C19_Witness ==
    \E g \in DOMAIN tasks :
        /\ tasks[g].cl.k = "ttu" /\ tasks[g].q = "iter"
        /\ TuplesetAt(g, tasks[g].cl.req.AtRevision) # <<>>
        /\ tasks[g].res = ExpandResult(NilTree, <<"ExpansionFailure", "iter">>)
        /\ tasks[g].pc = "done"

-----------------------------------------------------------------------------
(* The Expand RPC of internal/services/acl.go, up to and after its call of  *)
(* the dispatcher.  A header value is a string, held as the sequence of its *)
(* characters.                                                              *)

codesInvalidArgument == "InvalidArgument"

codesFailedPrecondition == "FailedPrecondition"

codesOutOfRange == "OutOfRange"

codesCanceled == "Canceled"

\* an error returned as it is: gRPC reports it with the code Unknown
codesUnknown == "Unknown"

codesOK == "OK"

errInvalidZookie == <<"InvalidZookie">>

errInvalidDepthRemaining == <<"InvalidDepthRemaining">>

maxUInt16 == DepthModulus - 1

DigitValue ==
    ("0" :> 0) @@ ("1" :> 1) @@ ("2" :> 2) @@ ("3" :> 3) @@ ("4" :> 4) @@
    ("5" :> 5) @@ ("6" :> 6) @@ ("7" :> 7) @@ ("8" :> 8) @@ ("9" :> 9)

\* the loop of strconv.Atoi: n = n*10 + digit
RECURSIVE DecimalOf(_)
DecimalOf(digits) ==
    IF digits = <<>>
    THEN 0
    ELSE DecimalOf(SubSeq(digits, 1, Len(digits) - 1)) * 10 + DigitValue[digits[Len(digits)]]

\* strconv.Atoi(s): an optional sign, then at least one digit and only digits
Atoi(s) ==
    LET signed == s # <<>> /\ s[1] \in {"+", "-"}
        body == IF signed THEN Tail(s) ELSE s
    IN  IF body = <<>> \/ \E j \in 1..Len(body) : body[j] \notin DOMAIN DigitValue
        THEN [n |-> 0, err |-> TRUE]
        ELSE [n |-> IF signed /\ s[1] = "-" THEN 0 - DecimalOf(body) ELSE DecimalOf(body),
              err |-> FALSE]

\* uint16(decoded)
ToUint16(n) == n % DepthModulus

\* calculateRequestDepth converting whatever number the header holds
calculateRequestDepthNoRangeCheck(md, matching, defaultDepth) ==
    IF md /\ Len(matching) > 0
    THEN IF Len(matching) > 1
         THEN [depth |-> 0, err |-> errInvalidDepthRemaining]
         ELSE LET decoded == Atoi(matching[1])
              IN  IF decoded.err
                  THEN [depth |-> 0, err |-> errInvalidDepthRemaining]
                  ELSE [depth |-> ToUint16(decoded.n), err |-> NoErr]
    ELSE [depth |-> defaultDepth, err |-> NoErr]

\* as.calculateRequestDepth(ctx): md says whether the context has incoming
\* metadata, matching is md.Get(depthRemainingHeader)
calculateRequestDepth(md, matching, defaultDepth) ==
    IF md /\ Len(matching) > 0
    THEN IF Len(matching) > 1
         THEN [depth |-> 0, err |-> errInvalidDepthRemaining]
         ELSE LET decoded == Atoi(matching[1])
              IN  IF decoded.err
                  THEN [depth |-> 0, err |-> errInvalidDepthRemaining]
                  ELSE IF decoded.n < 1 \/ decoded.n > maxUInt16
                  THEN [depth |-> 0, err |-> errInvalidDepthRemaining]
                  ELSE [depth |-> ToUint16(decoded.n), err |-> NoErr]
    ELSE [depth |-> defaultDepth, err |-> NoErr]

\* as.pickBestRevision(ctx, requested): dsRevision is what ds.Revision answers
pickBestRevision(dsRevision, requested) ==
    IF dsRevision.err # NoErr
    THEN [rev |-> 0, err |-> dsRevision.err]
    ELSE IF requested.set
    THEN IF ~requested.valid
         THEN [rev |-> 0, err |-> errInvalidZookie]
         ELSE IF requested.rev > dsRevision.rev
         THEN [rev |-> requested.rev, err |-> NoErr]
         ELSE [rev |-> dsRevision.rev, err |-> NoErr]
    ELSE [rev |-> dsRevision.rev, err |-> NoErr]

\* errors.As(err, &target) for an error value of the kind itself
ErrorsAs(err, kind) == err # NoErr /\ err[1] = kind

\* rewriteACLError reporting an unknown namespace or relation as a bad argument
rewriteACLErrorNamespaceAsArgument(err) ==
    CASE err = errInvalidZookie -> codesInvalidArgument
      [] ErrorsAs(err, "PreconditionFailed") -> codesFailedPrecondition
      [] ErrorsAs(err, "RequestCanceled") -> codesCanceled
      [] ErrorsAs(err, "AlwaysFail") \/ ErrorsAs(err, "InvalidRevision") -> codesOutOfRange
      [] OTHER -> IF ErrorsAs(err, "invalidRelationError")
                     \/ ErrorsAs(err, "UnknownNamespace") \/ ErrorsAs(err, "UnknownRelation")
                  THEN codesInvalidArgument ELSE codesUnknown

\* rewriteACLError(err): the status code of the error it returns
rewriteACLError(err) ==
    CASE err = errInvalidZookie -> codesInvalidArgument
      [] ErrorsAs(err, "UnknownNamespace") \/ ErrorsAs(err, "UnknownRelation")
            \/ ErrorsAs(err, "PreconditionFailed") -> codesFailedPrecondition
      [] ErrorsAs(err, "RequestCanceled") -> codesCanceled
      [] ErrorsAs(err, "AlwaysFail") \/ ErrorsAs(err, "InvalidRevision") -> codesOutOfRange
      [] OTHER -> IF ErrorsAs(err, "invalidRelationError")
                  THEN codesInvalidArgument ELSE codesUnknown

\* the values a client may send in the header authzed-depth-remaining
HeaderValues ==
    { <<"1">>, <<"5", "0">>, <<"6", "5", "5", "3", "5">>, <<"6", "5", "5", "3", "6">>,
      <<"6", "5", "5", "3", "7">>, <<"0">>, <<"-", "1">>, <<"+", "7">>, <<"0", "0", "7">>,
      <<>>, <<"a">>, <<"1", "a">>, <<" ", "1">>, <<"+">>, <<"1", ".", "0">> }

\* md.Get(depthRemainingHeader): no value, one value, or two
MatchingValues ==
    {<<>>} \cup { <<v>> : v \in HeaderValues } \cup { <<v, w>> : v, w \in HeaderValues }

\* the configured default depth of the server
DefaultDepths == {1, 50}

\* the zookie of the request: absent, undecodable, or a revision
Zookies ==
    { [set |-> FALSE, valid |-> TRUE, rev |-> 0], [set |-> TRUE, valid |-> FALSE, rev |-> 0] }
    \cup { [set |-> TRUE, valid |-> TRUE, rev |-> r] : r \in Revisions }

\* what the datastore answers to ds.Revision
DatabaseRevisions ==
    { [rev |-> 2, err |-> NoErr], [rev |-> 0, err |-> <<"Datastore">>],
      [rev |-> 0, err |-> <<"InvalidRevision">>],
      [rev |-> 0, err |-> <<"PreconditionFailed">>] }

\* what nsm.CheckNamespaceAndRelation answers
NamespaceChecks == { NoErr, <<"UnknownNamespace">>, <<"UnknownRelation">> }

\* what the dispatcher may answer to the RPC
DispatchResults ==
    { ExpandResult(LeafNode(ONR("folder", "a", "owner"), <<>>), NoErr),
      ExpandResult(NilTree, ErrRequestCanceled),
      ExpandResult(NilTree, ErrAlwaysFail),
      ExpandResult(NilTree, NewExpansionFailureErr("MaxDepthExceeded")) }

\* aclServer.Expand up to its call of the dispatcher (lines 272-298)
ExpandHandler(in) ==
    LET atRevision == pickBestRevision(in.dsRevision, in.zookie)
        depth == calculateRequestDepth(in.md, in.matching, in.defaultDepth)
        rejected(code) == [dispatched |-> FALSE, code |-> code, req |-> NoRequest]
    IN  IF ~in.valid
        THEN rejected(codesInvalidArgument)
        ELSE IF in.nsErr # NoErr
        THEN rejected(rewriteACLError(in.nsErr))
        ELSE IF atRevision.err # NoErr
        THEN rejected(rewriteACLError(atRevision.err))
        ELSE IF depth.err # NoErr
        THEN rejected(codesInvalidArgument)
        ELSE [dispatched |-> TRUE, code |-> "",
              req |-> ExpandRequest(in.userset, atRevision.rev, depth.depth, ShallowExpansion)]

InitRPC ==
    /\ \E valid \in BOOLEAN, nsErr \in NamespaceChecks, zookie \in Zookies,
          dsRevision \in DatabaseRevisions, md \in BOOLEAN, matching \in MatchingValues,
          defaultDepth \in DefaultDepths :
          /\ md \/ matching = <<>>
          /\ rpc = [pc |-> "start", dispatched |-> FALSE, code |-> "", resp |-> NoResult,
                    in |-> [userset |-> ONR("folder", "a", "owner"), valid |-> valid,
                            nsErr |-> nsErr, zookie |-> zookie, dsRevision |-> dsRevision,
                            md |-> md, matching |-> matching, defaultDepth |-> defaultDepth]]
    /\ tasks = <<>>
    /\ cancelled = {}
    /\ request = NoRequest
    /\ cancellable = TRUE

\* the handler runs up to its return with an error or its call of the dispatcher
ExpandRPC ==
    LET r == ExpandHandler(rpc.in)
    IN  /\ rpc.pc = "start"
        /\ rpc' = [rpc EXCEPT !.pc = IF r.dispatched THEN "dispatched" ELSE "returned",
                              !.dispatched = r.dispatched, !.code = r.code]
        /\ request' = r.req
        /\ UNCHANGED <<tasks, cancelled, cancellable>>

\* the dispatcher answers and the handler returns (lines 299-306)
ExpandRespond ==
    /\ rpc.pc = "dispatched"
    /\ \E resp \in DispatchResults :
          rpc' = [rpc EXCEPT !.pc = "returned", !.resp = resp,
                             !.code = IF resp.Err # NoErr THEN rewriteACLError(resp.Err)
                                      ELSE codesOK]
    /\ UNCHANGED <<tasks, cancelled, request, cancellable>>

NextRPC == ExpandRPC \/ ExpandRespond

SpecRPC == InitRPC /\ [][NextRPC]_vars

\* the values of the header the handler was given
HeaderOf == IF rpc.in.md THEN rpc.in.matching ELSE <<>>

\* s is written as a decimal integer: an optional sign and digits
IsDecimalInteger(s) ==
    \E from \in 1..2 :
        /\ from = 2 => (s # <<>> /\ s[1] \in {"+", "-"})
        /\ Len(s) >= from
        /\ \A j \in from..Len(s) : s[j] \in {"0", "1", "2", "3", "4", "5", "6", "7", "8", "9"}

\* the sum of digit * 10^position over the digits of s
RECURSIVE PositionalSum(_, _)
PositionalSum(s, j) ==
    IF j > Len(s) THEN 0
    ELSE (IF s[j] \in {"+", "-"} THEN 0 ELSE DigitValue[s[j]] * 10 ^ (Len(s) - j))
         + PositionalSum(s, j + 1)

\* the integer a decimal string denotes
IntegerOf(s) == IF s[1] = "-" THEN 0 - PositionalSum(s, 1) ELSE PositionalSum(s, 1)

\* the request came through validation, the namespace check and the choice of
\* the revision: the handler got to the depth header
ReachedDepthHeader ==
    /\ rpc.in.valid
    /\ rpc.in.nsErr = NoErr
    /\ pickBestRevision(rpc.in.dsRevision, rpc.in.zookie).err = NoErr

\* exactly one value, a decimal integer in [1, 65535]
HeaderInRange ==
    /\ Len(HeaderOf) = 1
    /\ IsDecimalInteger(HeaderOf[1])
    /\ IntegerOf(HeaderOf[1]) >= 1
    /\ IntegerOf(HeaderOf[1]) <= 65535

(* C20: the depth of the request is the value of the depth header when      *)
(* there is exactly one value and it is a decimal integer in [1, 65535],    *)
(* and the default depth of the server when the header is absent; with any  *)
(* other header nothing is dispatched, and a request that got as far as the *)
(* header is rejected with InvalidArgument.                                 *)
C20_DepthFromHeader ==
    rpc.pc # "start" =>
        /\ (ReachedDepthHeader /\ HeaderOf = <<>>) =>
              rpc.dispatched /\ request.DepthRemaining = rpc.in.defaultDepth
        /\ (ReachedDepthHeader /\ HeaderInRange) =>
              rpc.dispatched /\ request.DepthRemaining = IntegerOf(HeaderOf[1])
        /\ (HeaderOf # <<>> /\ ~HeaderInRange) =>
              /\ ~rpc.dispatched
              /\ request = NoRequest
              /\ ReachedDepthHeader => rpc.code = codesInvalidArgument

\* a request with the header 65535 was dispatched with that depth
C20_Witness ==
    /\ rpc.pc = "dispatched"
    /\ HeaderOf = << <<"6", "5", "5", "3", "5">> >>
    /\ request.DepthRemaining = 65535
    /\ request.ExpansionMode = ShallowExpansion

-----------------------------------------------------------------------------
\* task g still computes: it has not got to its result
Running(g) == tasks[g].pc \in {"new", "wait"}

\* child k of the reducer call of task g has an error to deliver
HasErrorReady(g, k) ==
    /\ Kid(g, k) \in DOMAIN tasks
    /\ Available(Kid(g, k))
    /\ IsError(tasks[Kid(g, k)].res)

(* C21 as stated: when any child of a set-operation reducer has returned an *)
(* error, the reducer's next step is to return that error, whichever peers  *)
(* are still running.                                                       *)
C21_AnyChildErrorReturnedAtOnce ==
    [][\A g \in DOMAIN tasks :
          \A k \in 1..tasks[g].n :
             (InSetOperation(g) /\ Waiting(g) /\ ~Done(tasks[g].ctx)
                 /\ HasErrorReady(g, k)
                 /\ tasks'[g] # tasks[g]) =>
                /\ tasks'[g].pc # "wait"
                /\ tasks'[g].red = ExpandResult(NilTree, tasks[Kid(g, k)].res.Err)]_vars

(* C21 amended: when the child a set-operation reducer is awaiting (the     *)
(* children are awaited in list order) has an error to deliver, the         *)
(* reducer's next step returns: that error, or RequestCanceled if its       *)
(* context is done as well; it receives from no later child, whatever the   *)
(* later children are doing.  The error of a child that is not the awaited  *)
(* one is not looked at until every child before it has delivered.          *)
C21_AwaitedErrorReturnedAtOnce ==
    [][\A g \in DOMAIN tasks :
          (InSetOperation(g) /\ Waiting(g)
              /\ HasErrorReady(g, tasks[g].i)
              /\ tasks'[g] # tasks[g]) =>
             /\ tasks'[g].pc # "wait"
             /\ \/ tasks'[g].red = ExpandResult(NilTree, tasks[Kid(g, tasks[g].i)].res.Err)
                \/ /\ Done(tasks[g].ctx)
                   /\ tasks'[g].red = ExpandResult(NilTree, ErrRequestCanceled)
             /\ \A j \in (tasks[g].i + 1)..tasks[g].n :
                   tasks'[Kid(g, j)] = tasks[Kid(g, j)]]_vars

\* a reducer returned the error of its first child while a later child was
\* still running
C21_Witness ==
    \E g \in DOMAIN tasks :
        /\ InSetOperation(g) /\ ReducerReturned(g) /\ ~Done(tasks[g].ctx)
        /\ tasks[g].i = 1 /\ tasks[g].n > 1
        /\ IsError(tasks[Kid(g, 1)].res)
        /\ tasks[g].red = ExpandResult(NilTree, tasks[Kid(g, 1)].res.Err)
        /\ \E j \in 2..tasks[g].n : Running(Kid(g, j))

-----------------------------------------------------------------------------
\* task g holds a tuple iterator it has not closed
HoldsIterator(g) == tasks[g].it = "open"

\* task g is at resultChan <- result on an unbuffered channel whose reducer
\* has returned: nothing will ever receive
Abandoned(g) ==
    /\ g # Root
    /\ tasks[g].pc = "send"
    /\ tasks[g].cap = 0
    /\ ReducerReturned(Parent(g))

(* C22: every tuple iterator opened by expandDirect or expandTupleToUserset *)
(* is eventually closed, however the call ends: from some point on no task  *)
(* holds an open iterator.                                                  *)
C22_IteratorsEventuallyClosed ==
    <>[](\A g \in DOMAIN tasks : ~HoldsIterator(g))

\* the iterators that stay open are those of the abandoned closures (and of a
\* process that panicked)
IteratorsClosedUnlessAbandoned ==
    <>[](\A g \in DOMAIN tasks : HoldsIterator(g) => (Abandoned(g) \/ Panicked))

\* a closure abandoned by its reducer holds its iterator open
AbandonedWithIterator ==
    \E g \in DOMAIN tasks : Abandoned(g) /\ HoldsIterator(g) /\ ~Panicked

-----------------------------------------------------------------------------
\* task g is at the statement that delivers its result (resultChan <- result)
Delivering(g) == tasks[g].pc = "send"

(* C23: the tuple iterator opened by an expandDirect or expandTupleToUserset *)
(* call is released before the call delivers its result: no closure is at   *)
(* the send of its result with its iterator still open, also when it        *)
(* dispatched sub-expansions after reading the tuples.                      *)
C23_IteratorReleasedBeforeDelivery ==
    \A g \in DOMAIN tasks : Delivering(g) => ~HoldsIterator(g)

\* a closure holds its iterator open while the sub-expansions it dispatched
\* are in flight
IteratorHeldDuringSubExpansions ==
    \E g \in DOMAIN tasks :
        /\ tasks[g].cl.k \in {"direct", "ttu"}
        /\ Waiting(g) /\ HoldsIterator(g)
        /\ \E k \in 1..tasks[g].n : Running(Kid(g, k))

-----------------------------------------------------------------------------
\* the reducer call of task g made a child context: context.WithCancel(ctx)
HasScope(g) == InSetOperation(g) /\ tasks[g].n > 0

\* the tasks whose child context was cancelled
ScopesCancelled == cancelled \ {RootCtx}

(* C24: a set-operation reducer with a non-empty child list runs every      *)
(* child on a scope of its own derived from the caller's context (a child   *)
(* sees cancellation when the scope or the caller's context is cancelled);  *)
(* the scope is cancelled exactly when the reducer has returned, whatever   *)
(* it returned; a reducer's return cancels nothing but its own scope: not   *)
(* the caller's context, not the scope of another reducer.                  *)
C24_ScopeCancelledOnReturn ==
    /\ \A g \in DOMAIN tasks :
          HasScope(g) =>
             /\ \A k \in 1..tasks[g].n :
                   /\ tasks[Kid(g, k)].ctx = g
                   /\ Done(tasks[g].ctx) => Done(tasks[Kid(g, k)].ctx)
             /\ ReducerReturned(g) <=> g \in cancelled
    /\ ScopesCancelled = { g \in DOMAIN tasks : HasScope(g) /\ ReducerReturned(g) }
    /\ RootCtx \in cancelled => cancellable

\* two reducers run under the same context: one has returned and its scope is
\* cancelled, the other is still in its select and sees no cancellation, nor
\* does their caller
C24_Witness ==
    \E g, h \in DOMAIN tasks :
        /\ g # h
        /\ HasScope(g) /\ HasScope(h)
        /\ tasks[g].ctx = tasks[h].ctx
        /\ ReducerReturned(g) /\ g \in cancelled
        /\ Waiting(h) /\ ~Done(h)
        /\ ~Done(tasks[g].ctx)

-----------------------------------------------------------------------------
\* the depth_remaining of the request task g works on
DepthOf(g) == tasks[g].cl.req.DepthRemaining

\* the closure of task g was made by the closure of its parent task
MadeByParent(g) == g # Root /\ HasRequest(g) /\ HasRequest(Parent(g))

(* C25: a sub-request handed to the dispatcher (for a computed userset, a   *)
(* child of a tupleset-to-userset, or the dereference of a non-terminal     *)
(* user) carries the depth_remaining of the request that made it minus      *)
(* exactly 1, as integers: the 16-bit counter never wraps around below 0.   *)
(* Every other child closure (_this, a nested rewrite, a tupleset-to-userset*)
(* arm, the closure the dispatcher runs for a request) works at the         *)
(* depth_remaining of the request it was made for, unchanged.               *)
C25_DepthDecrementedByOne ==
    \A g \in DOMAIN tasks :
        MadeByParent(g) =>
            /\ tasks[g].cl.k = "dispatch" =>
                  /\ DepthOf(g) + 1 = DepthOf(Parent(g))
                  /\ DepthOf(g) < maxUInt16
            /\ tasks[g].cl.k # "dispatch" => DepthOf(g) = DepthOf(Parent(g))

\* a rewrite expanded with depth 1: its _this child works at depth 1, the
\* sub-request of its computed userset was dispatched with depth 0 and refused
C25_Witness ==
    \E g \in DOMAIN tasks :
        /\ tasks[g].cl.k = "setop" /\ DepthOf(g) = 1 /\ tasks[g].n = 2
        /\ tasks[Kid(g, 1)].cl.k = "direct" /\ DepthOf(Kid(g, 1)) = 1
        /\ tasks[Kid(g, 1)].q = "ok"
        /\ tasks[Kid(g, 2)].cl.k = "dispatch" /\ DepthOf(Kid(g, 2)) = 0
        /\ HasResult(Kid(g, 2))

-----------------------------------------------------------------------------
\* the rewrite of the relation the dispatcher looked up for task g
RewriteOf(g) ==
    ReadNamespaceAndRelation(tasks[g].cl.req.Start[1], tasks[g].cl.req.Start[3],
                             tasks[g].cl.req.AtRevision).UsersetRewrite

\* task g is a call of the dispatcher that went on to expand a rewrite
ExpandsRewrite(g) ==
    /\ tasks[g].cl.k = "dispatch"
    /\ tasks[g].op = "One"
    /\ RewriteOf(g).op \in SetOperations

(* C26: the expansion mode of the root request is the mode of every         *)
(* sub-request and closure of the expansion.  In Shallow mode the arms of a *)
(* rewrite are still run: a computed userset is dispatched as a sub-request *)
(* with one less depth, a tupleset-to-userset reads its tupleset and        *)
(* dispatches one sub-request per tuple, a nested rewrite runs its reducer; *)
(* and every expandDirect of the expansion answers with a leaf without      *)
(* calling a reducer, whatever it found.                                    *)
C26_ShallowEverywhere ==
    /\ \A g \in DOMAIN tasks :
          HasRequest(g) => tasks[g].cl.req.ExpansionMode = request.ExpansionMode
    /\ request.ExpansionMode = ShallowExpansion =>
          \A g \in DOMAIN tasks :
             /\ (IsDirect(g) /\ tasks[g].q = "ok") =>
                   /\ tasks[g].op = ""
                   /\ tasks[g].res.Err = NoErr /\ tasks[g].res.Tree.type = "leaf"
             /\ (ExpandsRewrite(g) /\ tasks[Kid(g, 1)].pc # "new") =>
                   \A k \in 1..Len(RewriteOf(g).child) :
                      LET child == RewriteOf(g).child[k]
                          c == Kid(Kid(g, 1), k)
                      IN  /\ c \in DOMAIN tasks
                          /\ child.t = "cu" =>
                                /\ tasks[c].cl.k = "dispatch"
                                /\ DepthOf(c) + 1 = DepthOf(g)
                          /\ child.t = "ttu" =>
                                /\ tasks[c].cl.k = "ttu"
                                /\ tasks[c].q = "ok" =>
                                      /\ tasks[c].n = Len(TuplesetAt(c, request.AtRevision))
                                      /\ \A j \in 1..tasks[c].n :
                                            /\ tasks[Kid(c, j)].cl.k = "dispatch"
                                            /\ DepthOf(Kid(c, j)) + 1 = DepthOf(g)
                          /\ (child.t = "rewrite" /\ child.rw.op \in SetOperations) =>
                                tasks[c].cl.k = "setop"

\* a Shallow expansion returned a tree; below a computed userset, one hop down,
\* an expandDirect found a non-terminal user and answered with a leaf
C26_Witness ==
    /\ request.ExpansionMode = ShallowExpansion
    /\ tasks[Root].pc = "done" /\ Succeeded(Root)
    /\ \E g \in DOMAIN tasks :
          /\ Len(g) >= 4
          /\ IsDirect(g) /\ Succeeded(g)
          /\ NonTerminalsOf(Found(g)) # <<>>
          /\ tasks[g].cl.req.ExpansionMode = ShallowExpansion
          /\ DepthOf(g) < request.DepthRemaining
          /\ tasks[g].res.Tree.type = "leaf"

-----------------------------------------------------------------------------
\* x stands before y in seq
Before(seq, x, y) ==
    \E i, j \in 1..Len(seq) : i < j /\ seq[i] = x /\ seq[j] = y

(* C27 as stated: the users of every leaf are in the iteration order of the *)
(* tuple query.                                                             *)
C27_LeafInQueryOrder ==
    \A g \in DOMAIN tasks :
        (IsDirect(g) /\ Succeeded(g)) => DirectLeaf(g).users = Found(g)

(* C27 amended: the users of every leaf are the users the query yielded;    *)
(* two terminal users stand in the leaf in the order the query yielded      *)
(* them, and so do two non-terminal users, but every terminal user stands   *)
(* before every non-terminal user, wherever the query yielded them.         *)
C27_QueryOrderWithinEachKind ==
    \A g \in DOMAIN tasks :
        (IsDirect(g) /\ Succeeded(g)) =>
            /\ RangeOf(DirectLeaf(g).users) = RangeOf(Found(g))
            /\ \A x, y \in RangeOf(Found(g)) :
                  /\ (x # y /\ IsTerminal(x) = IsTerminal(y)) =>
                        (Before(DirectLeaf(g).users, x, y) <=> Before(Found(g), x, y))
                  /\ (IsTerminal(x) /\ IsNonTerminal(y)) =>
                        (Before(DirectLeaf(g).users, x, y)
                            /\ ~Before(DirectLeaf(g).users, y, x))

\* the query yielded a terminal user, then a non-terminal one, then a terminal
\* one: in the leaf the two terminal users kept their order and the
\* non-terminal one stands after both
C27_Witness ==
    \E g \in DOMAIN tasks :
        /\ IsDirect(g) /\ Succeeded(g)
        /\ \E i, j, k \in 1..Len(Found(g)) :
              /\ i < j /\ j < k
              /\ IsTerminal(Found(g)[i]) /\ IsNonTerminal(Found(g)[j])
              /\ IsTerminal(Found(g)[k])
              /\ Before(DirectLeaf(g).users, Found(g)[i], Found(g)[k])
              /\ Before(DirectLeaf(g).users, Found(g)[k], Found(g)[j])

-----------------------------------------------------------------------------
\* tree is an Intermediate node with the operation of the rewrite usr and one
\* child per child of usr, and so are its children that stand for nested rewrites
RECURSIVE Mirrors(_, _)
Mirrors(tree, usr) ==
    /\ tree.type = "inter"
    /\ tree.op = usr.op
    /\ Len(tree.children) = Len(usr.child)
    /\ \A k \in 1..Len(usr.child) :
          usr.child[k].t = "rewrite" => Mirrors(tree.children[k], usr.child[k].rw)

(* C28: the tree delivered for a relation whose rewrite is a Union, an      *)
(* Intersection or an Exclusion is an Intermediate node with that operation *)
(* and exactly one child per child of the rewrite, nested rewrites          *)
(* likewise; each child is the tree its child closure delivered, as it is:  *)
(* nothing is intersected, subtracted, deduplicated or pruned.              *)
C28_NodeMirrorsRewrite ==
    \A g \in DOMAIN tasks :
        (ExpandsRewrite(g) /\ Succeeded(g)) =>
            /\ Mirrors(tasks[g].res.Tree, RewriteOf(g))
            /\ tasks[g].res.Tree.expanded = tasks[g].cl.req.Start
            /\ \A k \in 1..Len(RewriteOf(g).child) :
                  tasks[g].res.Tree.children[k] = tasks[Kid(Kid(g, 1), k)].res.Tree

\* the tree of _this & (_this - {}): an Intersection of a leaf that holds a
\* user and an Exclusion whose only child is the very same leaf; both are kept
C28_Witness ==
    /\ tasks[Root].pc = "done" /\ Succeeded(Root)
    /\ RewriteOf(Root).op = "Intersection"
    /\ LET tree == tasks[Root].res.Tree
       IN  /\ tree.op = "Intersection"
           /\ Len(tree.children) = 2
           /\ tree.children[1].type = "leaf"
           /\ tree.children[1].users # <<>>
           /\ tree.children[2].op = "Exclusion"
           /\ tree.children[2].children = <<tree.children[1]>>

-----------------------------------------------------------------------------
\* the start of the sub-request expandTupleToUserset makes for the tuple tpl
UsersetOf(g, tpl) == ONR(tpl.User[1], tpl.User[2], tasks[g].cl.ttu.Relation)

(* C29: expandTupleToUserset, when its query works, calls ExpandAny with    *)
(* one sub-request per tuple of the tupleset relation, in query order; the  *)
(* i-th is dispatched for (tpl_i.user.namespace, tpl_i.user.object_id,      *)
(* computed userset relation) at the same revision and mode with            *)
(* depth_remaining - 1.  When it succeeds its tree is Union(req.Start,      *)
(* [C_1..C_n]), C_i the tree delivered for the i-th sub-request; with an    *)
(* empty tupleset it is Union(req.Start, []).                               *)
C29_TupleToUsersetIsUnionOfUsersets ==
    \A g \in DOMAIN tasks :
        (tasks[g].cl.k = "ttu" /\ tasks[g].q = "ok") =>
            LET req == tasks[g].cl.req
                rows == TuplesetAt(g, req.AtRevision)
            IN  /\ tasks[g].op = "Union"
                /\ tasks[g].n = Len(rows)
                /\ \A j \in 1..Len(rows) :
                      /\ tasks[Kid(g, j)].cl.k = "dispatch"
                      /\ tasks[Kid(g, j)].cl.req.Start = UsersetOf(g, rows[j])
                      /\ tasks[Kid(g, j)].cl.req.AtRevision = req.AtRevision
                      /\ tasks[Kid(g, j)].cl.req.ExpansionMode = req.ExpansionMode
                      /\ DepthOf(Kid(g, j)) + 1 = req.DepthRemaining
                /\ Succeeded(g) =>
                      /\ tasks[g].res.Tree.type = "inter"
                      /\ tasks[g].res.Tree.op = "Union"
                      /\ tasks[g].res.Tree.expanded = req.Start
                      /\ Len(tasks[g].res.Tree.children) = Len(rows)
                      /\ \A j \in 1..Len(rows) :
                            /\ tasks[g].res.Tree.children[j] = tasks[Kid(g, j)].res.Tree
                            /\ tasks[g].res.Tree.children[j].expanded = UsersetOf(g, rows[j])
                /\ rows = <<>> =>
                      tasks[g].res = setResult("Union", req.Start, <<>>)

\* a tupleset with two tuples gave a union of two subtrees, in the order of the
\* tuples, each of them the union over an empty tupleset
C29_Witness ==
    \E g \in DOMAIN tasks :
        /\ tasks[g].cl.k = "ttu" /\ Succeeded(g)
        /\ Len(TuplesetAt(g, tasks[g].cl.req.AtRevision)) = 2
        /\ Len(tasks[g].res.Tree.children) = 2
        /\ tasks[g].res.Tree.children[1].expanded = ONR("folder", "b", "viewer")
        /\ tasks[g].res.Tree.children[2].expanded = ONR("folder", "e", "viewer")
        /\ \E h \in DOMAIN tasks :
              /\ Len(h) > Len(g)
              /\ tasks[h].cl.k = "ttu" /\ tasks[h].q = "ok"
              /\ TuplesetAt(h, tasks[h].cl.req.AtRevision) = <<>>
              /\ tasks[h].res = setResult("Union", ONR("folder", "e", "viewer"), <<>>)

-----------------------------------------------------------------------------
\* child k of the rewrite task g expands is a computed userset of the object
\* being expanded
SameObjectChild(g, k) ==
    /\ RewriteOf(g).child[k].t = "cu"
    /\ RewriteOf(g).child[k].Object = "TUPLE_OBJECT"

\* the start of the sub-request of that child
SameObjectStart(g, k) ==
    ONR(tasks[g].cl.req.Start[1], tasks[g].cl.req.Start[2], RewriteOf(g).child[k].Relation)

(* C30: a computed userset that is a child of a rewrite (no tuple at hand)  *)
(* and refers to the object being expanded is dispatched as a sub-request   *)
(* whose start is (req.Start.namespace, req.Start.object_id, relation of    *)
(* the computed userset); when the rewrite delivers its tree, the tree of   *)
(* that sub-request stands at the position of the child, labelled with      *)
(* that start.                                                              *)
C30_ComputedUsersetOfSameObject ==
    \A g \in DOMAIN tasks :
        (ExpandsRewrite(g) /\ tasks[Kid(g, 1)].pc # "new") =>
            \A k \in 1..Len(RewriteOf(g).child) :
                SameObjectChild(g, k) =>
                    LET c == Kid(Kid(g, 1), k)
                    IN  /\ tasks[c].cl.k = "dispatch"
                        /\ tasks[c].cl.req.Start = SameObjectStart(g, k)
                        /\ tasks[c].cl.req.AtRevision = tasks[g].cl.req.AtRevision
                        /\ Succeeded(g) =>
                              /\ tasks[g].res.Tree.children[k] = tasks[c].res.Tree
                              /\ tasks[g].res.Tree.children[k].expanded = SameObjectStart(g, k)

\* folder:a#editor = _this + owner was expanded: the second child of the union
\* is the leaf of folder:a#owner
C30_Witness ==
    /\ tasks[Root].pc = "done" /\ Succeeded(Root)
    /\ request.Start = ONR("folder", "a", "editor")
    /\ SameObjectChild(Root, 2)
    /\ tasks[Root].res.Tree.children[2].expanded = ONR("folder", "a", "owner")
    /\ tasks[Root].res.Tree.children[2].type = "leaf"
    /\ tasks[Root].res.Tree.children[2].users # <<>>

-----------------------------------------------------------------------------
\* the closure of task g has not been run yet
NotStarted(g) == tasks[g].pc = "new"

\* the context the reducer call of task p gives to the children it starts
ScopeOf(p) == IF tasks[p].op = "One" THEN tasks[p].ctx ELSE p

(* C31: building the closures of a rewrite runs none of them.  A closure    *)
(* that has not been started has made no tuple query, called no dispatcher  *)
(* or reducer and has no result, and none of the child closures it holds is *)
(* running; every closure that runs was started by the reducer call of its  *)
(* parent, as one of its requests, on the context that call made for its    *)
(* children.                                                                *)
C31_NothingRunsBeforeItsReducer ==
    \A g \in DOMAIN tasks :
        /\ NotStarted(g) =>
              /\ tasks[g].q = "" /\ tasks[g].it = "none"
              /\ tasks[g].op = "" /\ ~HasResult(g)
              /\ \A h \in DOMAIN tasks : h = g \/ g \notin Ancestors(h)
        /\ g # Root =>
              /\ tasks[Parent(g)].op # ""
              /\ ~NotStarted(Parent(g))
              /\ Index(g) <= tasks[Parent(g)].n
              /\ tasks[g].ctx = ScopeOf(Parent(g))

\* the closure of a nested rewrite was built with its child closure and handed
\* to a reducer that started it; it has not run yet and its child does not
\* exist, while a sibling has already read its tuples
C31_Witness ==
    \E g \in DOMAIN tasks :
        /\ g # Root /\ NotStarted(g)
        /\ tasks[g].cl.k = "setop" /\ Len(tasks[g].cl.requests) > 0
        /\ Kid(g, 1) \notin DOMAIN tasks
        /\ InSetOperation(Parent(g)) /\ Waiting(Parent(g))
        /\ \E k \in 1..tasks[Parent(g)].n :
              Kid(Parent(g), k) # g /\ tasks[Kid(Parent(g), k)].q = "ok"

-----------------------------------------------------------------------------
\* the reducer call of task g returned a tree
ReturnedTree(g) == ReducerReturned(g) /\ ~IsError(tasks[g].red)

(* C32 as stated: the node a reducer has returned is never changed          *)
(* afterwards: what the closure that called the reducer delivers is the     *)
(* node as the reducer returned it.                                         *)
C32_ReturnedNodeNeverChanged ==
    \A g \in DOMAIN tasks :
        (ReturnedTree(g) /\ HasResult(g)) => tasks[g].res.Tree = tasks[g].red.Tree

\* in the state ts, the tree task g delivers is the node its reducer call
\* returned, with one more child at the end when g is an expandDirect
ExtendedAtMostByLeaf(ts, g) ==
    LET red == ts[g].red.Tree
        res == ts[g].res.Tree
    IN  IF ts[g].cl.k = "direct"
        THEN /\ res = [red EXCEPT !.children = res.children]
             /\ Len(res.children) = Len(red.children) + 1
             /\ SubSeq(res.children, 1, Len(red.children)) = red.children
             /\ res.children[Len(res.children)].type = "leaf"
        ELSE res = red

(* C32 amended: the node a reducer has returned is changed once, by         *)
(* expandDirect in the recursive case, which appends its leaf to the        *)
(* children of the Union that ExpandAny returned, leaving the label, the    *)
(* operation and the children already there as they were.  Apart from that  *)
(* no step changes a value once it exists: what a reducer returned, what a  *)
(* closure delivered, and the results of its children a reducer has read.   *)
C32_OnlyExpandDirectExtendsReturnedNode ==
    [][\A g \in DOMAIN tasks :
          /\ ReducerReturned(g) => tasks'[g].red = tasks[g].red
          /\ HasResult(g) => tasks'[g].res = tasks[g].res
          /\ (tasks'[g].op \in SetOperations /\ tasks'[g].red # NoResult
                 /\ tasks'[g].red.Err = NoErr /\ tasks'[g].res # NoResult) =>
                ExtendedAtMostByLeaf(tasks', g)]_vars

\* an expandDirect delivered the Union its ExpandAny call returned with its
\* leaf appended
C32_Witness ==
    \E g \in DOMAIN tasks :
        /\ IsDirect(g) /\ ReturnedTree(g) /\ Succeeded(g)
        /\ tasks[g].red.Tree.children # <<>>
        /\ tasks[g].res.Tree.children = Append(tasks[g].red.Tree.children, DirectLeaf(g))
        /\ tasks[g].res.Tree # tasks[g].red.Tree

-----------------------------------------------------------------------------
\* task g has called ExpandOne
InExpandOne(g) == tasks[g].op = "One"

(* C33: ExpandOne runs one child, on the caller's context and on a result   *)
(* channel of capacity one.  It returns what the child delivered as it is   *)
(* (a tree, or the child's error with no tree), or RequestCanceled when its *)
(* context is done.  The child's send never blocks: a child that has its    *)
(* result can always complete the send, also after ExpandOne has returned.  *)
C33_ExpandOneNeverBlocksItsChild ==
    \A g \in DOMAIN tasks :
        InExpandOne(g) =>
            /\ tasks[g].n = 1
            /\ Kid(g, 2) \notin DOMAIN tasks
            /\ tasks[Kid(g, 1)].cap = 1
            /\ tasks[Kid(g, 1)].ctx = tasks[g].ctx
            /\ ReducerReturned(g) =>
                  \/ /\ tasks[Kid(g, 1)].pc = "done"
                     /\ tasks[g].red = tasks[Kid(g, 1)].res
                     /\ IsError(tasks[g].red) => tasks[g].red.Tree = NilTree
                  \/ /\ Done(tasks[g].ctx)
                     /\ tasks[g].red = ExpandResult(NilTree, ErrRequestCanceled)
            /\ (Delivering(Kid(g, 1)) /\ ~Panicked) => ENABLED Send(Kid(g, 1))

\* ExpandOne returned RequestCanceled; its child went on, delivered a tree into
\* the buffer and returned
C33_Witness ==
    \E g \in DOMAIN tasks :
        /\ InExpandOne(g) /\ ReducerReturned(g)
        /\ tasks[g].red = ExpandResult(NilTree, ErrRequestCanceled)
        /\ tasks[Kid(g, 1)].pc = "done"
        /\ Succeeded(Kid(g, 1))

-----------------------------------------------------------------------------
\* the error the handler hands to rewriteACLError, if any: that of the
\* namespace check, of the choice of the revision, or of the dispatcher
ErrorRewritten ==
    IF ~rpc.in.valid THEN NoErr
    ELSE IF rpc.in.nsErr # NoErr THEN rpc.in.nsErr
    ELSE IF pickBestRevision(rpc.in.dsRevision, rpc.in.zookie).err # NoErr
    THEN pickBestRevision(rpc.in.dsRevision, rpc.in.zookie).err
    ELSE IF rpc.dispatched /\ rpc.pc = "returned" THEN rpc.resp.Err
    ELSE NoErr

\* the client sent a revision token that cannot be decoded, and the handler
\* got to decoding it
UndecodableZookie ==
    /\ rpc.in.valid /\ rpc.in.nsErr = NoErr /\ rpc.in.dsRevision.err = NoErr
    /\ rpc.in.zookie.set /\ ~rpc.in.zookie.valid

(* C34: the Expand RPC answers an unknown namespace, an unknown relation or *)
(* a failed precondition with FailedPrecondition, an invalid revision with  *)
(* OutOfRange, a cancelled request with Canceled, and a revision token that *)
(* cannot be decoded with InvalidArgument (nothing is dispatched then).     *)
C34_ErrorsMappedToStatusCodes ==
    rpc.pc = "returned" =>
        /\ ErrorRewritten \in {<<"UnknownNamespace">>, <<"UnknownRelation">>,
                               <<"PreconditionFailed">>} =>
              rpc.code = codesFailedPrecondition
        /\ ErrorRewritten = <<"InvalidRevision">> => rpc.code = codesOutOfRange
        /\ ErrorRewritten = ErrRequestCanceled => rpc.code = codesCanceled
        /\ UndecodableZookie => (rpc.code = codesInvalidArgument /\ ~rpc.dispatched)
        /\ ErrorRewritten = NoErr /\ rpc.dispatched => rpc.code = codesOK

\* the dispatcher answered RequestCanceled and the RPC returned Canceled
C34_Witness ==
    /\ rpc.pc = "returned" /\ rpc.dispatched
    /\ rpc.resp.Err = ErrRequestCanceled
    /\ rpc.code = codesCanceled

-----------------------------------------------------------------------------
\* the closure of task g has returned
Completed(g) == tasks[g].pc = "done"

\* the kinds of closure the expander makes
ClosureKinds == {"direct", "setop", "dispatch", "ttu", "fail"}

(* C35: every closure the expander makes (direct, set operation, dispatch,  *)
(* tupleset-to-userset, always-fail) that has run to completion has sent    *)
(* exactly one result on its result channel, whichever path it took; one    *)
(* that has not completed has completed no send.                            *)
C35_ExactlyOneSend ==
    \A g \in DOMAIN tasks :
        g # Root =>
            /\ tasks[g].cl.k \in ClosureKinds
            /\ Completed(g) => (tasks[g].sent = 1 /\ HasResult(g))
            /\ ~Completed(g) => tasks[g].sent = 0

\* closures of three kinds ran to completion under one expansion, one of them
\* on an error path, each with one send
C35_Witness ==
    \E d, s, e \in DOMAIN tasks :
        /\ d # Root /\ tasks[d].cl.k = "dispatch" /\ Completed(d) /\ tasks[d].sent = 1
        /\ tasks[s].cl.k = "setop" /\ Completed(s) /\ tasks[s].sent = 1
        /\ tasks[e].cl.k = "direct" /\ Completed(e) /\ tasks[e].sent = 1
        /\ tasks[e].q = "iter" /\ IsError(tasks[e].res)

====
